---- MODULE Spec2Model ----
(***************************************************************************)
(* Booking slot-allocation and booking-lifecycle core of the studio        *)
(* booking backend (backend/app/routes/booking.py,                         *)
(* backend/app/utils/booking_helpers.py, backend/app/schemas/booking.py).  *)
(*                                                                         *)
(* Units: a time of day is a number of seconds since 00:00:00, a date is a *)
(* day number, an instant (datetime) is a number of seconds since 00:00:00 *)
(* of day 0, money is a number of hundredths (Decimal with 2 places), a    *)
(* refund percentage is a whole number of percent.  A nullable column is   *)
(* NULL (the empty tuple) or Some(v) (a one-element tuple).                *)
(***************************************************************************)
EXTENDS Integers, Sequences, FiniteSets, TLC

VARIABLES
    now,        \* the wall clock: datetime.utcnow(), date.today()
    bookings,   \* table "bookings": booking_id -> row
    next_id,    \* the next value of the booking_id primary-key sequence
    resources,  \* table "resources": resource_id -> row
    studios,    \* table "studios": studio_id -> row
    last,       \* the last request served and its response
    reqs,       \* worker threads serving requests step by step (SpecConc)
    call        \* a call of a helper function and its result (SpecRefund)

vars == <<now, bookings, next_id, resources, studios, last, reqs, call>>

-----------------------------------------------------------------------------
(* Bounds of the model *)

\* the largest number of rows ever inserted into "bookings"
MaxBookings == 2

\* the number of worker threads that serve requests concurrently (SpecConc)
MaxWorkers == 2

-----------------------------------------------------------------------------
(* Values *)

NULL == <<>>
Some(v) == <<v>>
Val(x) == x[1]

HMS(h, m, s) == (h * 60 + m) * 60 + s
DateTime(d, t) == d * (24 * 3600) + t        \* datetime.combine(d, t)
Today(t) == t \div (24 * 3600)               \* date.today() at instant t

\* users.role of the principals (models/user.py); every principal is an
\* authenticated, active, unflagged user
Users == {"c1", "c2", "o1", "o2", "a1"}
role(u) == IF u \in {"c1", "c2"} THEN "customer"
           ELSE IF u = "a1" THEN "admin"
           ELSE "owner"

\* booking dates and times of day of the requests: today and tomorrow
Dates == {0, 1}
Times == {HMS(9, 0, 0), HMS(9, 30, 0), HMS(10, 0, 0)}

\* BookingStatus (models/booking.py)
PENDING_APPROVAL == "pending_approval"
APPROVED == "approved"
REJECTED == "rejected"
CONFIRMED == "confirmed"
CHECKED_IN == "checked_in"
COMPLETED == "completed"
CANCELLED == "cancelled"
REFUNDED == "refunded"

BookingStatus == {PENDING_APPROVAL, APPROVED, REJECTED, CONFIRMED, CHECKED_IN,
                  COMPLETED, CANCELLED, REFUNDED}

-----------------------------------------------------------------------------
(* utils/booking_helpers.py *)

\* round(Decimal, 2): the quotient num / den rounded to a whole number of
\* hundredths, ties to the even neighbour (ROUND_HALF_EVEN); num >= 0, den > 0
RoundHalfEven(num, den) ==
    LET q == num \div den
        r == num % den
    IN  IF 2 * r < den THEN q
        ELSE IF 2 * r > den THEN q + 1
        ELSE IF q % 2 = 0 THEN q ELSE q + 1

\* int((end_dt - start_dt).total_seconds() / 60): truncation toward zero
calculate_duration_minutes(start_time, end_time) ==
    LET secs == end_time - start_time
    IN  IF secs >= 0 THEN secs \div 60 ELSE -((-secs) \div 60)

calculate_booking_price_HourlyRate(base_price_per_hour, duration_minutes) ==
    base_price_per_hour

\* the number of decimal digits of n >= 1
Digits(n) == CHOOSE k \in 1..9 : 10^(k-1) <= n /\ n < 10^k

\* getcontext().prec: the significant digits a Decimal quotient or product keeps
prec == 28

\* hours = Decimal(duration_minutes) / Decimal(60); total = rate * hours;
\* round(total, 2), for rate >= 0 in hundredths and duration_minutes >= 0.
\* With q and r the quotient and remainder of rate * duration_minutes by 60:
\*  - the quotient hours is exact when duration_minutes is a multiple of 3, and
\*    the result is rate * duration_minutes / 60 rounded half-even;
\*  - otherwise hours is duration_minutes / 60 rounded to prec digits, that is
\*    (duration_minutes * 10^p + 20) / 60 when duration_minutes % 3 = 1 and
\*    (duration_minutes * 10^p - 20) / 60 when duration_minutes % 3 = 2, with
\*    p == prec + 2 - Digits(100 * duration_minutes \div 60) decimal places, and
\*    total is the exact value plus or minus rate / 3 units of 10^-p
\*    hundredths, rounded to prec digits (its last k digits dropped).  That
\*    error is below 1/60 of a hundredth, so it changes the result on a tie
\*    (r = 30) only: the tie goes up when the error that survives the
\*    rounding of total is positive, down when it is negative, and to the
\*    even neighbour when the rounding of total removes it.
calculate_booking_price(base_price_per_hour, duration_minutes) ==
    LET n == base_price_per_hour * duration_minutes
        q == n \div 60
        r == n % 60
        p == prec + 2 - Digits((100 * duration_minutes) \div 60)
        k == (IF q >= 1 THEN Digits(q) ELSE 0) + p - prec
        err == IF k > 0 THEN RoundHalfEven(base_price_per_hour \div 3, 10^k)
               ELSE base_price_per_hour \div 3
    IN  IF r # 30 \/ duration_minutes % 3 = 0 \/ err = 0 THEN RoundHalfEven(n, 60)
        ELSE IF duration_minutes % 3 = 1 THEN q + 1
        ELSE q

ActiveStatuses_NoCheckedIn == {PENDING_APPROVAL, APPROVED, CONFIRMED}

ActiveStatuses_WithRejected == {PENDING_APPROVAL, APPROVED, REJECTED, CONFIRMED, CHECKED_IN}

\* the statuses of the query filter Booking.status.in_([...])
ActiveStatuses == {PENDING_APPROVAL, APPROVED, CONFIRMED, CHECKED_IN}

Overlaps_ExactMatch(new_start, new_end, existing_start, existing_end) ==
    (new_start = existing_start) /\ (new_end = existing_end)

Overlaps_StartInside(new_start, new_end, existing_start, existing_end) ==
    (existing_start <= new_start) /\ (new_start < existing_end)

Overlaps_Closed(new_start, new_end, existing_start, existing_end) ==
    (new_start <= existing_end) /\ (new_end >= existing_start)

\* (new_start < existing_end) and (new_end > existing_start)
Overlaps(new_start, new_end, existing_start, existing_end) ==
    (new_start < existing_end) /\ (new_end > existing_start)

ExistingBookings_NoExclude(bk, resource_id, booking_date, exclude_booking_id) ==
    {b \in DOMAIN bk :
        /\ bk[b].resource_id = resource_id
        /\ bk[b].booking_date = booking_date
        /\ bk[b].status \in {PENDING_APPROVAL, APPROVED, CONFIRMED, CHECKED_IN}}

\* "if exclude_booking_id:" is false for None and for 0
ExistingBookings(bk, resource_id, booking_date, exclude_booking_id) ==
    {b \in DOMAIN bk :
        /\ bk[b].resource_id = resource_id
        /\ bk[b].booking_date = booking_date
        /\ bk[b].status \in ActiveStatuses
        /\ (exclude_booking_id # NULL /\ Val(exclude_booking_id) # 0
               => b # Val(exclude_booking_id))}

check_time_slot_available(bk, resource_id, booking_date, start_time, end_time, exclude_booking_id) ==
    \A b \in ExistingBookings(bk, resource_id, booking_date, exclude_booking_id) :
        ~Overlaps(DateTime(booking_date, start_time), DateTime(booking_date, end_time),
                  DateTime(bk[b].booking_date, bk[b].start_time),
                  DateTime(bk[b].booking_date, bk[b].end_time))

RefundPercentage_Always80(booking_date, start_time, cancellation_date) == 80

RefundPercentage_MoreThan24(booking_date, start_time, cancellation_date) ==
    IF DateTime(booking_date, start_time) - cancellation_date > 24 * 3600
    THEN 80 ELSE 0

\* hours_until_booking >= 24, with hours_until_booking =
\* (booking_datetime - cancellation_date).total_seconds() / 3600
RefundPercentage(booking_date, start_time, cancellation_date) ==
    IF DateTime(booking_date, start_time) - cancellation_date >= 24 * 3600
    THEN 80 ELSE 0

\* returns (refund_percentage, round(total_amount * refund_percentage / 100, 2))
calculate_refund_amount(total_amount, booking_date, start_time, cancellation_date) ==
    LET refund_percentage == RefundPercentage(booking_date, start_time, cancellation_date)
    IN  <<refund_percentage, RoundHalfEven(total_amount * refund_percentage, 100)>>

-----------------------------------------------------------------------------
(* Responses *)

\* op: the operation; caller: the authenticated user; booking_id: the booking
\* of the path (the new one for a successful create, 0 for a failed one);
\* reason: the rejection_reason or cancel_reason of the body (NULL: none);
\* before: the row of that booking when the request arrived (NULL: no such row);
\* args: the body of a create request (resource_id, booking_date, start_time,
\* end_time); status_in_detail: the booking.status that the detail of the two
\* status checks interpolates ("none": the detail names no status)
Response(op, caller, booking_id, reason, before, status_code, detail) ==
    [op |-> op, caller |-> caller, booking_id |-> booking_id, reason |-> reason,
     before |-> before, status_code |-> status_code, detail |-> detail,
     args |-> <<>>,
     status_in_detail |-> IF detail \in {"already", "cannot_cancel"}
                          THEN Val(before).status ELSE "none"]

\* the response of POST /bookings/ to the body args
CreateResponse(caller, args, booking_id, status_code, detail) ==
    [Response("create", caller, booking_id, NULL, NULL, status_code, detail)
        EXCEPT !.args = args]

Row(bk, booking_id) == IF booking_id \in DOMAIN bk THEN Some(bk[booking_id]) ELSE NULL

\* the error kind of a response: the HTTP status, and for 400 the check that
\* raised it
ErrorKind(resp) ==
    CASE resp.status_code \in {200, 201, 204} -> "None"
      [] resp.status_code = 404 -> "NotFound"
      [] resp.status_code = 403 -> "Forbidden"
      [] resp.status_code = 409 -> "Conflict"
      [] resp.status_code = 422 -> "ValidationError"
      [] resp.status_code = 400 /\ resp.detail \in {"already", "cannot_cancel"}
            -> "InvalidTransition"
      [] resp.status_code = 400 /\ resp.detail \in {"min_duration", "increments"}
            -> "InvalidInterval"
      [] OTHER -> "BadRequest"

-----------------------------------------------------------------------------
(* Initial state: two published studios with one resource each, no booking *)

Workers == 1..MaxWorkers

\* a worker thread: pc is "idle", "commit" (the checks passed, the session holds
\* the pending INSERT or UPDATE) or "done" (the response is ready); booking_id is
\* the booking of the path, loaded the row as read, pending the row as assigned
Worker(pc, op, booking_id, loaded, pending, status_code) ==
    [pc |-> pc, op |-> op, booking_id |-> booking_id, loaded |-> loaded,
     pending |-> pending, status_code |-> status_code]

Idle == Worker("idle", "none", 0, NULL, NULL, 0)

NoCall == [fn |-> "none", args |-> <<>>, result |-> NULL]

InitTables ==
    /\ now = DateTime(0, HMS(9, 0, 0))
    /\ bookings = <<>>
    /\ next_id = 1
    /\ studios = (1 :> [owner_id |-> "o1", is_active |-> TRUE, is_published |-> TRUE]
               @@ 2 :> [owner_id |-> "o2", is_active |-> TRUE, is_published |-> TRUE])
    /\ resources = (1 :> [studio_id |-> 1, base_price_per_hour |-> 100000, is_active |-> TRUE]
                 @@ 2 :> [studio_id |-> 2, base_price_per_hour |-> 150000, is_active |-> TRUE])
    /\ last = Response("none", "none", 0, NULL, NULL, 0, "none")
    /\ reqs = [w \in Workers |-> Idle]

Init == InitTables /\ call = NoCall

-----------------------------------------------------------------------------
(* schemas/booking.py: request bodies and their validators *)

\* BookingCreate.validate_date: 'Booking date cannot be in the past'
validate_date(booking_date, t) == ~(booking_date < Today(t))

\* BookingCreate.validate_time_range: 'End time must be after start time'
validate_time_range(start_time, end_time) == ~(end_time <= start_time)

\* Python truth value of an Optional[str]: None and "" are false
Truthy(v) == v # NULL /\ Val(v) # ""

\* The bodies of PUT /bookings/{id}/approve.  given says whether the JSON
\* object carries the key rejection_reason; without it the field takes its
\* default None.
ApprovalBodies ==
    {body \in [approve : BOOLEAN, given : BOOLEAN,
               rejection_reason : {NULL, Some(""), Some("unavailable")}] :
        ~body.given => body.rejection_reason = NULL}

\* BookingApproval.validate_rejection_reason: a field_validator runs on the
\* value a request supplies, not on the default of a field the request omits
validate_rejection_reason(body) ==
    body.given => ~(~body.approve /\ ~Truthy(body.rejection_reason))

\* The bodies of PUT /bookings/{id}/cancel
CancelReasons == {"no", "schedule conflict"}
StrLen(s) == IF s = "no" THEN 2 ELSE 17

\* BookingCancellation.cancel_reason: Field(..., min_length=5, max_length=500)
validate_cancel_reason(cancel_reason) ==
    StrLen(cancel_reason) >= 5 /\ StrLen(cancel_reason) <= 500

-----------------------------------------------------------------------------
(* The database session *)

\* db.commit() after attribute assignments on a loaded row: the UPDATE sets
\* the columns whose value differs from the loaded one, on the stored row
Flush(stored, loaded, modified) ==
    [f \in DOMAIN stored |-> IF modified[f] # loaded[f] THEN modified[f] ELSE stored[f]]

Result(status_code, detail) == [status_code |-> status_code, detail |-> detail]

-----------------------------------------------------------------------------
(* routes/booking.py: create_booking *)

CreateCheck_NoStudioCheck(bk, res, st, t, u, resource_id, booking_date, start_time, end_time) ==
    IF role(u) # "customer" THEN Result(403, "role")
    ELSE IF ~validate_date(booking_date, t) THEN Result(422, "booking_date")
    ELSE IF ~validate_time_range(start_time, end_time) THEN Result(422, "end_time")
    ELSE IF resource_id \notin DOMAIN res THEN Result(404, "resource")
    ELSE IF ~res[resource_id].is_active THEN Result(400, "resource_inactive")
    ELSE IF ~check_time_slot_available(bk, resource_id, booking_date,
                                       start_time, end_time, NULL)
         THEN Result(409, "slot_taken")
    ELSE IF calculate_duration_minutes(start_time, end_time) < 30
         THEN Result(400, "min_duration")
    ELSE IF calculate_duration_minutes(start_time, end_time) % 30 # 0
         THEN Result(400, "increments")
    ELSE Result(201, "created")

CreateCheck_NoIncrements(bk, res, st, t, u, resource_id, booking_date, start_time, end_time) ==
    IF role(u) # "customer" THEN Result(403, "role")
    ELSE IF ~validate_date(booking_date, t) THEN Result(422, "booking_date")
    ELSE IF ~validate_time_range(start_time, end_time) THEN Result(422, "end_time")
    ELSE IF resource_id \notin DOMAIN res THEN Result(404, "resource")
    ELSE IF ~res[resource_id].is_active THEN Result(400, "resource_inactive")
    ELSE IF ~st[res[resource_id].studio_id].is_published
            \/ ~st[res[resource_id].studio_id].is_active
         THEN Result(400, "studio_closed")
    ELSE IF ~check_time_slot_available(bk, resource_id, booking_date,
                                       start_time, end_time, NULL)
         THEN Result(409, "slot_taken")
    ELSE IF calculate_duration_minutes(start_time, end_time) < 30
         THEN Result(400, "min_duration")
    ELSE Result(201, "created")

\* The checks of POST /bookings/ up to the insert, on the tables bk, res, st
\* at instant t: the response status and which check raised it (201: none)
CreateCheck(bk, res, st, t, u, resource_id, booking_date, start_time, end_time) ==
    IF role(u) # "customer" THEN Result(403, "role")
    ELSE IF ~validate_date(booking_date, t) THEN Result(422, "booking_date")
    ELSE IF ~validate_time_range(start_time, end_time) THEN Result(422, "end_time")
    ELSE IF resource_id \notin DOMAIN res THEN Result(404, "resource")
    ELSE IF ~res[resource_id].is_active THEN Result(400, "resource_inactive")
    ELSE IF ~st[res[resource_id].studio_id].is_published
            \/ ~st[res[resource_id].studio_id].is_active
         THEN Result(400, "studio_closed")
    ELSE IF ~check_time_slot_available(bk, resource_id, booking_date,
                                       start_time, end_time, NULL)
         THEN Result(409, "slot_taken")
    ELSE IF calculate_duration_minutes(start_time, end_time) < 30
         THEN Result(400, "min_duration")
    ELSE IF calculate_duration_minutes(start_time, end_time) % 30 # 0
         THEN Result(400, "increments")
    ELSE Result(201, "created")

\* Booking(...) with the column defaults; created_at is func.now()
NewBooking(res, t, u, resource_id, booking_date, start_time, end_time) ==
    LET duration == calculate_duration_minutes(start_time, end_time)
    IN  [user_id |-> u,
         resource_id |-> resource_id,
         studio_id |-> res[resource_id].studio_id,
         booking_date |-> booking_date,
         start_time |-> start_time,
         end_time |-> end_time,
         duration_minutes |-> duration,
         status |-> PENDING_APPROVAL,
         total_amount |-> calculate_booking_price(res[resource_id].base_price_per_hour,
                                                  duration),
         currency |-> "INR",
         approved_at |-> NULL,
         approved_by |-> NULL,
         rejection_reason |-> NULL,
         cancelled_at |-> NULL,
         cancel_reason |-> NULL,
         refund_percentage |-> NULL,
         refund_amount |-> NULL,
         created_at |-> t]

Insert(bk, id, row) == [b \in DOMAIN bk \cup {id} |-> IF b = id THEN row ELSE bk[b]]

create_booking(u, resource_id, booking_date, start_time, end_time) ==
    LET r == CreateCheck(bookings, resources, studios, now, u, resource_id,
                         booking_date, start_time, end_time)
    IN  /\ r.status_code = 201 => next_id <= MaxBookings
        /\ IF r.status_code = 201
           THEN /\ bookings' = Insert(bookings, next_id,
                                      NewBooking(resources, now, u, resource_id,
                                                 booking_date, start_time, end_time))
                /\ next_id' = next_id + 1
                /\ last' = CreateResponse(u, <<resource_id, booking_date, start_time, end_time>>,
                                          next_id, 201, r.detail)
           ELSE /\ UNCHANGED <<bookings, next_id>>
                /\ last' = CreateResponse(u, <<resource_id, booking_date, start_time, end_time>>,
                                          0, r.status_code, r.detail)
        /\ UNCHANGED <<now, resources, studios, reqs, call>>

-----------------------------------------------------------------------------
(* routes/booking.py: approve_or_reject_booking *)

CanDecide_AlsoRejected(status) == status \in {PENDING_APPROVAL, REJECTED}

\* "if booking.status != BookingStatus.PENDING_APPROVAL" raises
CanDecide(status) == status = PENDING_APPROVAL

IsStudioOwner_AnyOwner(st, booking, u) == TRUE

\* "if studio.owner_id != current_user.user_id" raises
IsStudioOwner(st, booking, u) == st[booking.studio_id].owner_id = u

\* The checks of PUT /bookings/{id}/approve up to the assignments
DecideCheck(bk, st, u, booking_id, body) ==
    IF role(u) # "owner" THEN Result(403, "role")
    ELSE IF ~validate_rejection_reason(body) THEN Result(422, "rejection_reason")
    ELSE IF booking_id \notin DOMAIN bk THEN Result(404, "booking")
    ELSE IF ~IsStudioOwner(st, bk[booking_id], u) THEN Result(403, "permission")
    ELSE IF ~CanDecide(bk[booking_id].status) THEN Result(400, "already")
    ELSE Result(200, "decided")

Approve_NoApprover(booking, u, t) ==
    [booking EXCEPT !.status = APPROVED, !.approved_at = Some(t), !.rejection_reason = NULL]

Approve_Confirmed(booking, u, t) ==
    [booking EXCEPT !.status = CONFIRMED, !.approved_at = Some(t), !.approved_by = Some(u)]

\* the assignments of the APPROVE branch
Approve(booking, u, t) ==
    [booking EXCEPT !.status = APPROVED,
                    !.approved_at = Some(t),
                    !.approved_by = Some(u),
                    !.rejection_reason = NULL]

Reject_KeepsReason(booking, rejection_reason) ==
    [booking EXCEPT !.status = REJECTED, !.approved_at = NULL, !.approved_by = NULL]

\* the assignments of the REJECT branch
Reject(booking, rejection_reason) ==
    [booking EXCEPT !.status = REJECTED,
                    !.rejection_reason = rejection_reason,
                    !.approved_at = NULL,
                    !.approved_by = NULL]

Decide(booking, u, body, t) ==
    IF body.approve THEN Approve(booking, u, t) ELSE Reject(booking, body.rejection_reason)

OpOfBody(body) == IF body.approve THEN "approve" ELSE "reject"

approve_or_reject_booking(u, booking_id, body) ==
    LET r == DecideCheck(bookings, studios, u, booking_id, body)
    IN  /\ bookings' =
              IF r.status_code = 200
              THEN [bookings EXCEPT ![booking_id] =
                       Flush(@, @, Decide(@, u, body, now))]
              ELSE bookings
        /\ last' = Response(OpOfBody(body), u, booking_id, body.rejection_reason,
                          Row(bookings, booking_id), r.status_code, r.detail)
        /\ UNCHANGED <<now, next_id, resources, studios, reqs, call>>

-----------------------------------------------------------------------------
(* routes/booking.py: cancel_booking *)

CanCancel_Again(status) == status \notin {REFUNDED, COMPLETED}

\* "if booking.status in [CANCELLED, REFUNDED, COMPLETED]" raises
CanCancel(status) == status \notin {CANCELLED, REFUNDED, COMPLETED}

IsOwnBooking_Anyone(booking, u) == TRUE

\* "if booking.user_id != current_user.user_id" raises
IsOwnBooking(booking, u) == booking.user_id = u

\* The checks of PUT /bookings/{id}/cancel up to the refund calculation
CancelCheck(bk, u, booking_id, cancel_reason) ==
    IF ~validate_cancel_reason(cancel_reason) THEN Result(422, "cancel_reason")
    ELSE IF booking_id \notin DOMAIN bk THEN Result(404, "booking")
    ELSE IF ~IsOwnBooking(bk[booking_id], u) THEN Result(403, "own")
    ELSE IF ~CanCancel(bk[booking_id].status) THEN Result(400, "cannot_cancel")
    ELSE Result(200, "cancelled")

Cancel_NetOfRefund(booking, cancel_reason, t) ==
    LET refund == calculate_refund_amount(booking.total_amount, booking.booking_date,
                                          booking.start_time, t)
    IN  [booking EXCEPT !.status = CANCELLED,
                        !.cancelled_at = Some(t),
                        !.cancel_reason = Some(cancel_reason),
                        !.refund_percentage = Some(refund[1]),
                        !.refund_amount = Some(refund[2]),
                        !.total_amount = @ - refund[2]]

\* the refund calculation and the assignments of "Update booking"
Cancel(booking, cancel_reason, t) ==
    LET refund == calculate_refund_amount(booking.total_amount, booking.booking_date,
                                          booking.start_time, t)
    IN  [booking EXCEPT !.status = CANCELLED,
                        !.cancelled_at = Some(t),
                        !.cancel_reason = Some(cancel_reason),
                        !.refund_percentage = Some(refund[1]),
                        !.refund_amount = Some(refund[2])]

cancel_booking(u, booking_id, cancel_reason) ==
    LET r == CancelCheck(bookings, u, booking_id, cancel_reason)
    IN  /\ bookings' =
              IF r.status_code = 200
              THEN [bookings EXCEPT ![booking_id] =
                       Flush(@, @, Cancel(@, cancel_reason, now))]
              ELSE bookings
        /\ last' = Response("cancel", u, booking_id, Some(cancel_reason),
                          Row(bookings, booking_id), r.status_code, r.detail)
        /\ UNCHANGED <<now, next_id, resources, studios, reqs, call>>

-----------------------------------------------------------------------------
(* routes/booking.py: get_available_slots *)

close_time_2145 == HMS(21, 45, 0)

\* open_time = time(9, 0), close_time = time(22, 0)
open_time == HMS(9, 0, 0)
close_time == HMS(22, 0, 0)

\* TimeSlot(start_time, end_time, is_available, price)
TimeSlot(start_time, end_time, is_available, price) ==
    [start_time |-> start_time, end_time |-> end_time,
     is_available |-> is_available, price |-> price]

\* the while loop: current_time and end_time are instants of one day, given
\* here as times of day; the slots appended from current_time on
RECURSIVE SlotsLoop(_, _, _, _, _, _)
SlotsLoop(bk, res, resource_id, booking_date, current_time, end_time) ==
    IF ~(current_time < end_time) THEN <<>>
    ELSE LET slot_start == current_time
             slot_end == current_time + 30 * 60
             rest == SlotsLoop(bk, res, resource_id, booking_date, slot_end, end_time)
         IN  IF slot_end <= end_time
             THEN <<TimeSlot(slot_start, slot_end,
                             check_time_slot_available(bk, resource_id, booking_date,
                                                       slot_start, slot_end, NULL),
                             calculate_booking_price(res[resource_id].base_price_per_hour, 30))>>
                  \o rest
             ELSE rest

\* The response of GET /bookings/available-slots/{resource_id}?booking_date=...
\* on the tables bk, res: no authentication, no check of the date
GetAvailableSlots(bk, res, resource_id, booking_date) ==
    IF resource_id \notin DOMAIN res
    THEN [status_code |-> 404, detail |-> "resource", slots |-> <<>>]
    ELSE IF ~res[resource_id].is_active
    THEN [status_code |-> 400, detail |-> "resource_inactive", slots |-> <<>>]
    ELSE [status_code |-> 200, detail |-> "slots",
          slots |-> SlotsLoop(bk, res, resource_id, booking_date, open_time, close_time)]

get_available_slots(resource_id, booking_date) ==
    /\ call' = [fn |-> "get_available_slots", args |-> <<resource_id, booking_date>>,
                result |-> Some(GetAvailableSlots(bookings, resources, resource_id,
                                                  booking_date))]
    /\ UNCHANGED <<now, bookings, next_id, resources, studios, last, reqs>>

-----------------------------------------------------------------------------
(* routes/resource.py: update_resource; routes/studio.py: update_studio *)

\* model_dump(exclude_unset=True) and the setattr loop: a field the body does
\* not carry (NULL here) keeps its value, a field it carries takes the value
Patch(row, body) ==
    [f \in DOMAIN row |-> IF f \in DOMAIN body /\ body[f] # NULL THEN Val(body[f]) ELSE row[f]]

\* ResourceUpdate.base_price_per_hour: Field(None, gt=0, decimal_places=2)
validate_resource_update(body) ==
    body.base_price_per_hour # NULL => Val(body.base_price_per_hour) > 0

\* The checks of PUT /resources/resource/{id} up to the assignments
UpdateResourceCheck(res, st, u, resource_id, body) ==
    IF role(u) # "owner" THEN Result(403, "role")
    ELSE IF ~validate_resource_update(body) THEN Result(422, "base_price_per_hour")
    ELSE IF resource_id \notin DOMAIN res THEN Result(404, "resource")
    ELSE IF st[res[resource_id].studio_id].owner_id # u THEN Result(403, "permission")
    ELSE Result(200, "updated")

update_resource(u, resource_id, body) ==
    LET r == UpdateResourceCheck(resources, studios, u, resource_id, body)
    IN  /\ resources' =
              IF r.status_code = 200
              THEN [resources EXCEPT ![resource_id] = Flush(@, @, Patch(@, body))]
              ELSE resources
        /\ last' = Response("update_resource", u, 0, NULL, NULL, r.status_code, r.detail)
        /\ UNCHANGED <<now, bookings, next_id, studios, reqs, call>>

\* The checks of PUT /studios/{id} up to the assignments
UpdateStudioCheck(st, u, studio_id, body) ==
    IF role(u) # "owner" THEN Result(403, "role")
    ELSE IF studio_id \notin DOMAIN st THEN Result(404, "studio")
    ELSE IF st[studio_id].owner_id # u THEN Result(403, "permission")
    ELSE Result(200, "updated")

update_studio(u, studio_id, body) ==
    LET r == UpdateStudioCheck(studios, u, studio_id, body)
    IN  /\ studios' =
              IF r.status_code = 200
              THEN [studios EXCEPT ![studio_id] = Flush(@, @, Patch(@, body))]
              ELSE studios
        /\ last' = Response("update_studio", u, 0, NULL, NULL, r.status_code, r.detail)
        /\ UNCHANGED <<now, bookings, next_id, resources, reqs, call>>

-----------------------------------------------------------------------------
(* routes/booking.py: get_my_bookings, get_pending_bookings, get_booking *)

\* ORDER BY created_at ASC (desc = FALSE) or DESC (desc = TRUE) of the rows
\* ids: every listing of ids in which created_at never decreases, or never
\* increases; the database returns one of them (rows with the same
\* created_at come in any order)
OrderByCreatedAt(bk, ids, desc) ==
    {s \in [1..Cardinality(ids) -> ids] :
        /\ \A i, j \in DOMAIN s : i # j => s[i] # s[j]
        /\ \A i, j \in DOMAIN s :
              i < j => IF desc THEN bk[s[i]].created_at >= bk[s[j]].created_at
                       ELSE bk[s[i]].created_at <= bk[s[j]].created_at}

\* filter(Booking.user_id == current_user.user_id)
MyBookings(bk, u) == {b \in DOMAIN bk : bk[b].user_id = u}

\* GET /bookings/my-bookings; the list holds the rows, named by booking_id here
get_my_bookings(u) ==
    /\ \E rows \in (IF role(u) # "customer" THEN {<<>>}
                    ELSE OrderByCreatedAt(bookings, MyBookings(bookings, u), TRUE)) :
          call' = [fn |-> "get_my_bookings", args |-> <<u>>,
                   result |-> Some([status_code |-> IF role(u) # "customer" THEN 403 ELSE 200,
                                    detail |-> IF role(u) # "customer" THEN "role" ELSE "list",
                                    rows |-> rows])]
    /\ UNCHANGED <<now, bookings, next_id, resources, studios, last, reqs>>

\* the studio ids of filter(Studio.owner_id == current_user.user_id)
StudioIds(st, u) == {x \in DOMAIN st : st[x].owner_id = u}

PendingBookings_AnyStatus(bk, studio_ids) ==
    {b \in DOMAIN bk : bk[b].studio_id \in studio_ids}

\* filter(Booking.studio_id.in_(studio_ids), Booking.status == PENDING_APPROVAL)
PendingBookings(bk, studio_ids) ==
    {b \in DOMAIN bk : bk[b].studio_id \in studio_ids /\ bk[b].status = PENDING_APPROVAL}

\* GET /bookings/pending-approvals; an owner without studios gets the empty list
get_pending_bookings(u) ==
    /\ \E rows \in (IF role(u) # "owner" THEN {<<>>}
                    ELSE IF StudioIds(studios, u) = {} THEN {<<>>}
                    ELSE OrderByCreatedAt(bookings,
                             PendingBookings(bookings, StudioIds(studios, u)), FALSE)) :
          call' = [fn |-> "get_pending_bookings", args |-> <<u>>,
                   result |-> Some([status_code |-> IF role(u) # "owner" THEN 403 ELSE 200,
                                    detail |-> IF role(u) # "owner" THEN "role" ELSE "list",
                                    rows |-> rows])]
    /\ UNCHANGED <<now, bookings, next_id, resources, studios, last, reqs>>

GetBooking_AnyOwner(bk, st, u, booking_id) ==
    IF booking_id \notin DOMAIN bk
    THEN [status_code |-> 404, detail |-> "booking", booking |-> NULL]
    ELSE IF ~(bk[booking_id].user_id = u \/ role(u) \in {"owner", "admin"})
    THEN [status_code |-> 403, detail |-> "permission", booking |-> NULL]
    ELSE [status_code |-> 200, detail |-> "booking", booking |-> Some(bk[booking_id])]

\* GET /bookings/{booking_id}: the checks and the row returned
GetBooking(bk, st, u, booking_id) ==
    IF booking_id \notin DOMAIN bk
    THEN [status_code |-> 404, detail |-> "booking", booking |-> NULL]
    ELSE LET booking == bk[booking_id]
             is_customer == booking.user_id = u
             is_owner == IF role(u) = "owner" THEN st[booking.studio_id].owner_id = u
                         ELSE FALSE
             is_admin == role(u) = "admin"
         IN  IF ~(is_customer \/ is_owner \/ is_admin)
             THEN [status_code |-> 403, detail |-> "permission", booking |-> NULL]
             ELSE [status_code |-> 200, detail |-> "booking", booking |-> Some(booking)]

get_booking(u, booking_id) ==
    /\ call' = [fn |-> "get_booking", args |-> <<u, booking_id>>,
                result |-> Some(GetBooking(bookings, studios, u, booking_id))]
    /\ UNCHANGED <<now, bookings, next_id, resources, studios, last, reqs>>

-----------------------------------------------------------------------------
(* routes/resource.py: delete_resource; routes/studio.py: delete_studio *)

\* DELETE FROM the table of the rows whose keys are in gone
Remaining(table, gone) == [k \in DOMAIN table \ gone |-> table[k]]

\* bookings.resource_id: ForeignKey("resources.resource_id", ondelete="CASCADE")
BookingsOfResources(bk, gone) == {b \in DOMAIN bk : bk[b].resource_id \in gone}

\* resources.studio_id: ForeignKey("studios.studio_id", ondelete="CASCADE")
ResourcesOfStudio(res, studio_id) == {r \in DOMAIN res : res[r].studio_id = studio_id}

\* bookings.studio_id: ForeignKey("studios.studio_id", ondelete="CASCADE")
BookingsOfStudio(bk, studio_id) == {b \in DOMAIN bk : bk[b].studio_id = studio_id}

\* The checks of DELETE /resources/resource/{id} up to db.delete
DeleteResourceCheck(res, st, u, resource_id) ==
    IF role(u) # "owner" THEN Result(403, "role")
    ELSE IF resource_id \notin DOMAIN res THEN Result(404, "resource")
    ELSE IF st[res[resource_id].studio_id].owner_id # u THEN Result(403, "permission")
    ELSE Result(204, "deleted")

\* db.delete(resource); db.commit(): the database deletes the row and, by the
\* foreign key of bookings, the bookings of the resource
delete_resource(u, resource_id) ==
    LET r == DeleteResourceCheck(resources, studios, u, resource_id)
    IN  /\ resources' =
              IF r.status_code = 204 THEN Remaining(resources, {resource_id}) ELSE resources
        /\ bookings' =
              IF r.status_code = 204
              THEN Remaining(bookings, BookingsOfResources(bookings, {resource_id}))
              ELSE bookings
        /\ last' = Response("delete_resource", u, 0, NULL, NULL, r.status_code, r.detail)
        /\ UNCHANGED <<now, next_id, studios, reqs, call>>

\* The checks of DELETE /studios/{id} up to db.delete
DeleteStudioCheck(st, u, studio_id) ==
    IF role(u) # "owner" THEN Result(403, "role")
    ELSE IF studio_id \notin DOMAIN st THEN Result(404, "studio")
    ELSE IF st[studio_id].owner_id # u THEN Result(403, "permission")
    ELSE Result(204, "deleted")

\* db.delete(studio); db.commit(): the database deletes the row and, by the
\* foreign keys, the resources of the studio and the bookings of the studio
\* and of its resources
delete_studio(u, studio_id) ==
    LET r == DeleteStudioCheck(studios, u, studio_id)
        gone == ResourcesOfStudio(resources, studio_id)
    IN  /\ studios' =
              IF r.status_code = 204 THEN Remaining(studios, {studio_id}) ELSE studios
        /\ resources' =
              IF r.status_code = 204 THEN Remaining(resources, gone) ELSE resources
        /\ bookings' =
              IF r.status_code = 204
              THEN Remaining(bookings, BookingsOfStudio(bookings, studio_id)
                                       \cup BookingsOfResources(bookings, gone))
              ELSE bookings
        /\ last' = Response("delete_studio", u, 0, NULL, NULL, r.status_code, r.detail)
        /\ UNCHANGED <<now, next_id, reqs, call>>

-----------------------------------------------------------------------------
(* Requests served one at a time *)

BookingIds == 1..MaxBookings

\* The requests of Spec, the booking lifecycle: customer c1 asks for 09:00-10:00
\* on resource 1 today or tomorrow; o1 (no customer), the missing resource 3
\* and the reversed interval are the failing requests; c2 and o2 are the foreign
\* callers of approve, reject and cancel.
SpecCreateArgs ==
    {<<"c1", 1, d, HMS(9, 0, 0), HMS(10, 0, 0)>> : d \in Dates}
    \cup {<<"o1", 1, 1, HMS(9, 0, 0), HMS(10, 0, 0)>>,
          <<"c1", 3, 1, HMS(9, 0, 0), HMS(10, 0, 0)>>,
          <<"c1", 1, 1, HMS(10, 0, 0), HMS(9, 0, 0)>>}

\* owner o1 sends every body, the foreign owner o2 and the customer c1 one each
SpecDecideArgs ==
    {<<"o1", body>> : body \in ApprovalBodies}
    \cup {<<u, [approve |-> a, given |-> ~a,
                rejection_reason |-> IF a THEN NULL ELSE Some("unavailable")]>> :
             u \in {"o2", "c1"}, a \in BOOLEAN}

SpecCancelArgs == {"c1", "c2"} \X CancelReasons

Next ==
    \/ \E a \in SpecCreateArgs : create_booking(a[1], a[2], a[3], a[4], a[5])
    \/ \E a \in SpecDecideArgs, booking_id \in BookingIds :
          approve_or_reject_booking(a[1], booking_id, a[2])
    \/ \E a \in SpecCancelArgs, booking_id \in BookingIds :
          cancel_booking(a[1], booking_id, a[2])

Spec == Init /\ [][Next]_vars

-----------------------------------------------------------------------------
(* Requests served one at a time, the slots of one day *)

\* The requests of SpecSlots: customer c1 asks for any interval between 09:00
\* and 10:00 of tomorrow on resource 1 (and for the empty 10:00-10:00), and
\* for 09:00-10:00 on resource 2; the owners approve, or reject with a reason;
\* c1 cancels.
SlotsCreateArgs ==
    {<<"c1", 1, 1, start_time, end_time>> : start_time \in Times, end_time \in {HMS(10, 0, 0)}}
    \cup {<<"c1", 1, 1, HMS(9, 0, 0), HMS(9, 30, 0)>>,
          <<"c1", 2, 1, HMS(9, 0, 0), HMS(10, 0, 0)>>}

SlotsDecideArgs ==
    {<<u, [approve |-> a, given |-> ~a,
           rejection_reason |-> IF a THEN NULL ELSE Some("unavailable")]>> :
        u \in {"o1", "o2"}, a \in BOOLEAN}

NextSlots ==
    \/ \E a \in SlotsCreateArgs : create_booking(a[1], a[2], a[3], a[4], a[5])
    \/ \E a \in SlotsDecideArgs, booking_id \in BookingIds :
          approve_or_reject_booking(a[1], booking_id, a[2])
    \/ \E booking_id \in BookingIds : cancel_booking("c1", booking_id, "schedule conflict")

SpecSlots == Init /\ [][NextSlots]_vars

-----------------------------------------------------------------------------
(* Requests served one at a time, the conditions of create_booking *)

\* Three studios with one resource each; studio 3 was deactivated out of band
\* (no route assigns studios.is_active after the studio is created)
InitCreate ==
    /\ now = DateTime(0, HMS(9, 0, 0))
    /\ bookings = <<>>
    /\ next_id = 1
    /\ studios = (1 :> [owner_id |-> "o1", is_active |-> TRUE, is_published |-> TRUE]
               @@ 2 :> [owner_id |-> "o2", is_active |-> TRUE, is_published |-> TRUE]
               @@ 3 :> [owner_id |-> "o2", is_active |-> FALSE, is_published |-> TRUE])
    /\ resources = (1 :> [studio_id |-> 1, base_price_per_hour |-> 100000, is_active |-> TRUE]
                 @@ 2 :> [studio_id |-> 2, base_price_per_hour |-> 150000, is_active |-> TRUE]
                 @@ 3 :> [studio_id |-> 3, base_price_per_hour |-> 100000, is_active |-> TRUE])
    /\ last = Response("none", "none", 0, NULL, NULL, 0, "none")
    /\ reqs = [w \in Workers |-> Idle]
    /\ call = NoCall

\* The intervals of the requests on resource 1: 14:00-16:00, 09:00-10:00 and
\* 10:00-11:00 (touching), 09:00-10:01 (61 minutes), 09:00-09:15 (too short),
\* 09:30-10:15 (45 minutes), 10:00-09:00 (reversed)
CreateIntervals ==
    {<<HMS(14, 0, 0), HMS(16, 0, 0)>>, <<HMS(9, 0, 0), HMS(10, 0, 0)>>,
     <<HMS(10, 0, 0), HMS(11, 0, 0)>>, <<HMS(9, 0, 0), HMS(10, 1, 0)>>,
     <<HMS(9, 0, 0), HMS(9, 15, 0)>>, <<HMS(9, 30, 0), HMS(10, 15, 0)>>,
     <<HMS(10, 0, 0), HMS(9, 0, 0)>>}

\* The requests of SpecCreate: customer c1 asks for the intervals on resource 1
\* tomorrow, for 09:00-10:00 yesterday, on resource 3 (inactive studio) and on
\* the missing resource 4; the owner o1 is no customer
CreateArgs ==
    {<<"c1", 1, 1, i[1], i[2]>> : i \in CreateIntervals}
    \cup {<<"c1", 1, -1, HMS(9, 0, 0), HMS(10, 0, 0)>>,
          <<"c1", 3, 1, HMS(9, 0, 0), HMS(10, 0, 0)>>,
          <<"c1", 4, 1, HMS(9, 0, 0), HMS(10, 0, 0)>>,
          <<"o1", 1, 1, HMS(9, 0, 0), HMS(10, 0, 0)>>}

\* bodies of update_resource: a new rate, deactivate, reactivate, a rate of 0
ResourceUpdates ==
    {[base_price_per_hour |-> Some(150000), is_active |-> NULL],
     [base_price_per_hour |-> NULL, is_active |-> Some(FALSE)],
     [base_price_per_hour |-> NULL, is_active |-> Some(TRUE)],
     [base_price_per_hour |-> Some(0), is_active |-> NULL]}

\* owner o1 updates its resource 1; o2 (foreign owner) and the missing
\* resource 4 are the failing requests
UpdateResourceArgs ==
    {<<"o1", 1, body>> : body \in ResourceUpdates}
    \cup {<<"o2", 1, [base_price_per_hour |-> Some(150000), is_active |-> NULL]>>,
          <<"o1", 4, [base_price_per_hour |-> Some(150000), is_active |-> NULL]>>}

\* owner o1 unpublishes and publishes its studio 1; o2 is the foreign owner
UpdateStudioArgs ==
    {<<"o1", 1, [is_published |-> Some(p)]>> : p \in BOOLEAN}
    \cup {<<"o2", 1, [is_published |-> Some(FALSE)]>>}

NextCreate ==
    \/ \E a \in CreateArgs : create_booking(a[1], a[2], a[3], a[4], a[5])
    \/ \E booking_id \in BookingIds : cancel_booking("c1", booking_id, "schedule conflict")
    \/ \E a \in UpdateResourceArgs : update_resource(a[1], a[2], a[3])
    \/ \E a \in UpdateStudioArgs : update_studio(a[1], a[2], a[3])

SpecCreate == InitCreate /\ [][NextCreate]_vars

-----------------------------------------------------------------------------
(* Requests served one at a time, the rate of a resource changes *)

\* The requests of SpecPrice: customer c1 asks for 09:00-10:00 on resource 1
\* today or tomorrow; the owner o1 approves, or rejects with a reason, and sets
\* the rate of resource 1 to 1000.00 or 1500.00; c1 cancels.
PriceCreateArgs == {<<"c1", 1, d, HMS(9, 0, 0), HMS(10, 0, 0)>> : d \in Dates}

PriceUpdateArgs ==
    {<<"o1", 1, [base_price_per_hour |-> Some(p), is_active |-> NULL]>> : p \in {100000, 150000}}

NextPrice ==
    \/ \E a \in PriceCreateArgs : create_booking(a[1], a[2], a[3], a[4], a[5])
    \/ \E a \in {x \in SlotsDecideArgs : x[1] = "o1"}, booking_id \in BookingIds :
          approve_or_reject_booking(a[1], booking_id, a[2])
    \/ \E booking_id \in BookingIds : cancel_booking("c1", booking_id, "schedule conflict")
    \/ \E a \in PriceUpdateArgs : update_resource(a[1], a[2], a[3])

SpecPrice == Init /\ [][NextPrice]_vars

-----------------------------------------------------------------------------
(* Requests served one at a time, the slots of a day are listed *)

\* The requests of SpecList: customer c1 asks for 09:00-10:00 or 21:30-22:00
\* on resource 1 tomorrow and cancels; the owner o1 sets the rate of resource 1
\* to 1000.01, deactivates and reactivates it; anyone lists the slots of
\* resource 1 for yesterday, tomorrow and the day after, and those of resource
\* 2 and of the missing resource 4 for tomorrow.
ListCreateArgs ==
    {<<"c1", 1, 1, HMS(9, 0, 0), HMS(10, 0, 0)>>,
     <<"c1", 1, 1, HMS(21, 30, 0), HMS(22, 0, 0)>>}

ListUpdateArgs ==
    {<<"o1", 1, [base_price_per_hour |-> Some(100001), is_active |-> NULL]>>,
     <<"o1", 1, [base_price_per_hour |-> NULL, is_active |-> Some(FALSE)]>>,
     <<"o1", 1, [base_price_per_hour |-> NULL, is_active |-> Some(TRUE)]>>}

ListArgs == {<<1, -1>>, <<1, 1>>, <<1, 2>>, <<2, 1>>, <<4, 1>>}

NextList ==
    \/ \E a \in ListCreateArgs : create_booking(a[1], a[2], a[3], a[4], a[5])
    \/ \E booking_id \in BookingIds : cancel_booking("c1", booking_id, "schedule conflict")
    \/ \E a \in ListUpdateArgs : update_resource(a[1], a[2], a[3])
    \/ \E a \in ListArgs : get_available_slots(a[1], a[2])

SpecList == Init /\ [][NextList]_vars

-----------------------------------------------------------------------------
(* Requests served concurrently: the handlers are plain "def" functions, which
   the framework runs on worker threads, each with its own database session.
   A request reads and checks in one step and commits in a later one. *)

\* lines 130-202 of create_booking: the checks, then Booking(...) is built
create_booking_check(w, u, resource_id, booking_date, start_time, end_time) ==
    LET r == CreateCheck(bookings, resources, studios, now, u, resource_id,
                         booking_date, start_time, end_time)
    IN  /\ reqs[w].pc = "idle"
        /\ reqs' = [reqs EXCEPT ![w] =
              IF r.status_code = 201
              THEN Worker("commit", "create", 0, NULL,
                          Some(NewBooking(resources, now, u, resource_id, booking_date,
                                          start_time, end_time)), 0)
              ELSE Worker("done", "create", 0, NULL, NULL, r.status_code)]
        /\ UNCHANGED <<now, bookings, next_id, resources, studios, last, call>>

\* lines 204-208 of create_booking: db.add, db.commit
create_booking_commit(w) ==
    /\ reqs[w].pc = "commit" /\ reqs[w].op = "create"
    /\ next_id <= MaxBookings
    /\ bookings' = Insert(bookings, next_id, Val(reqs[w].pending))
    /\ next_id' = next_id + 1
    /\ reqs' = [reqs EXCEPT ![w] = Worker("done", "create", next_id, NULL, NULL, 201)]
    /\ UNCHANGED <<now, resources, studios, last, call>>

\* lines 306-343 of approve_or_reject_booking: load, check, assign
approve_or_reject_booking_check(w, u, booking_id, body) ==
    LET r == DecideCheck(bookings, studios, u, booking_id, body)
    IN  /\ reqs[w].pc = "idle"
        /\ reqs' = [reqs EXCEPT ![w] =
              IF r.status_code = 200
              THEN Worker("commit", OpOfBody(body), booking_id, Some(bookings[booking_id]),
                          Some(Decide(bookings[booking_id], u, body, now)), 0)
              ELSE Worker("done", OpOfBody(body), booking_id, NULL, NULL, r.status_code)]
        /\ UNCHANGED <<now, bookings, next_id, resources, studios, last, call>>

\* lines 370-406 of cancel_booking: load, check, refund, assign
cancel_booking_check(w, u, booking_id, cancel_reason) ==
    LET r == CancelCheck(bookings, u, booking_id, cancel_reason)
    IN  /\ reqs[w].pc = "idle"
        /\ reqs' = [reqs EXCEPT ![w] =
              IF r.status_code = 200
              THEN Worker("commit", "cancel", booking_id, Some(bookings[booking_id]),
                          Some(Cancel(bookings[booking_id], cancel_reason, now)), 0)
              ELSE Worker("done", "cancel", booking_id, NULL, NULL, r.status_code)]
        /\ UNCHANGED <<now, bookings, next_id, resources, studios, last, call>>

\* db.commit() of approve_or_reject_booking and of cancel_booking: the UPDATE
\* of the assigned columns, by primary key
update_commit(w) ==
    /\ reqs[w].pc = "commit" /\ reqs[w].op \in {"approve", "reject", "cancel"}
    /\ bookings' = [bookings EXCEPT ![reqs[w].booking_id] =
                       Flush(@, Val(reqs[w].loaded), Val(reqs[w].pending))]
    /\ reqs' = [reqs EXCEPT ![w] =
                   Worker("done", reqs[w].op, reqs[w].booking_id, NULL, NULL, 200)]
    /\ UNCHANGED <<now, next_id, resources, studios, last, call>>

\* the response is sent, the thread takes the next request
respond(w) ==
    /\ reqs[w].pc = "done"
    /\ reqs' = [reqs EXCEPT ![w] = Idle]
    /\ UNCHANGED <<now, bookings, next_id, resources, studios, last, call>>

\* The requests of SpecConc: c1 asks for 09:00-10:00 of tomorrow on resource 1,
\* the owner o1 approves, or rejects with a reason, c1 cancels.
NextConc ==
    \E w \in Workers :
        \/ create_booking_check(w, "c1", 1, 1, HMS(9, 0, 0), HMS(10, 0, 0))
        \/ create_booking_commit(w)
        \/ \E a \in {x \in SlotsDecideArgs : x[1] = "o1"}, booking_id \in BookingIds :
              approve_or_reject_booking_check(w, a[1], booking_id, a[2])
        \/ \E booking_id \in BookingIds :
              cancel_booking_check(w, "c1", booking_id, "schedule conflict")
        \/ update_commit(w)
        \/ respond(w)

SpecConc == Init /\ [][NextConc]_vars

-----------------------------------------------------------------------------
(* Requests served one at a time, with the deletion of resources and studios *)

\* The requests of SpecDelete: customer c1 asks for 09:00-10:00 of tomorrow
\* on resource 1, 2 or the missing resource 4; the owners approve, or reject
\* with a reason; c1 cancels; o1, o2 and c1 delete resources and studios
DeleteCreateArgs == {<<"c1", r, 1, HMS(9, 0, 0), HMS(10, 0, 0)>> : r \in {1, 2, 4}}

DeleteArgs == {<<"o1", 1>>, <<"o2", 1>>, <<"o2", 2>>, <<"o1", 4>>, <<"c1", 1>>}

NextDelete ==
    \/ \E a \in DeleteCreateArgs : create_booking(a[1], a[2], a[3], a[4], a[5])
    \/ \E a \in SlotsDecideArgs, booking_id \in BookingIds :
          approve_or_reject_booking(a[1], booking_id, a[2])
    \/ \E booking_id \in BookingIds : cancel_booking("c1", booking_id, "schedule conflict")
    \/ \E a \in DeleteArgs : delete_resource(a[1], a[2])
    \/ \E a \in DeleteArgs : delete_studio(a[1], a[2])

SpecDelete == Init /\ [][NextDelete]_vars

-----------------------------------------------------------------------------
(* Requests served one at a time, with the lists of bookings *)

\* customer, resource and booking date of the bookings stored when the lists
\* are read
ViewKeys == {<<"c1", 1, 1>>, <<"c1", 1, 2>>, <<"c2", 2, 1>>, <<"c1", 2, 1>>}

\* Booking i was created i seconds after 09:00:00 of today (the requests were
\* served one after the other) for the hour that starts at 09:00 + i hours,
\* so that no two bookings overlap
ViewRow(res, k, i) ==
    NewBooking(res, DateTime(0, HMS(9, 0, 0)) + i, k[1], k[2], k[3],
               HMS(9 + i, 0, 0), HMS(10 + i, 0, 0))

\* The tables of InitTables after up to MaxBookings successful create_booking
\* requests
InitViews ==
    /\ studios = (1 :> [owner_id |-> "o1", is_active |-> TRUE, is_published |-> TRUE]
               @@ 2 :> [owner_id |-> "o2", is_active |-> TRUE, is_published |-> TRUE])
    /\ resources = (1 :> [studio_id |-> 1, base_price_per_hour |-> 100000, is_active |-> TRUE]
                 @@ 2 :> [studio_id |-> 2, base_price_per_hour |-> 150000, is_active |-> TRUE])
    /\ \E n \in 0..MaxBookings :
          bookings \in {[i \in 1..n |-> ViewRow(resources, kf[i], i)] :
                           kf \in [1..n -> ViewKeys]}
    /\ next_id = Len(bookings) + 1
    /\ now = DateTime(0, HMS(9, 0, 0)) + next_id
    /\ last = Response("none", "none", 0, NULL, NULL, 0, "none")
    /\ reqs = [w \in Workers |-> Idle]
    /\ call = NoCall

\* The requests of SpecViews: the owner o1 approves, or rejects with a reason,
\* c1 cancels, and o1, o2 and the customer c1 read the list of pending bookings
NextViews ==
    \/ \E a \in {x \in SlotsDecideArgs : x[1] = "o1"}, booking_id \in BookingIds :
          approve_or_reject_booking(a[1], booking_id, a[2])
    \/ \E booking_id \in BookingIds : cancel_booking("c1", booking_id, "schedule conflict")
    \/ \E u \in {"o1", "o2", "c1"} : get_pending_bookings(u)

SpecViews == InitViews /\ [][NextViews]_vars

\* The requests of SpecMine: the owner o1 approves, c1 cancels, and c1, c2 and
\* the owner o1 read the list of their bookings
NextMine ==
    \/ \E booking_id \in BookingIds :
          approve_or_reject_booking("o1", booking_id,
              [approve |-> TRUE, given |-> FALSE, rejection_reason |-> NULL])
    \/ \E booking_id \in BookingIds : cancel_booking("c1", booking_id, "schedule conflict")
    \/ \E u \in {"c1", "c2", "o1"} : get_my_bookings(u)

SpecMine == InitViews /\ [][NextMine]_vars

-----------------------------------------------------------------------------
(* Requests served one at a time, with the read of one booking *)

\* The requests of SpecGet: c1 asks for 09:00-10:00 of tomorrow on resource 1,
\* c2 on resource 2; o1 approves; every principal reads every booking, the
\* missing booking MaxBookings + 1 included
GetCreateArgs ==
    {<<"c1", 1, 1, HMS(9, 0, 0), HMS(10, 0, 0)>>, <<"c2", 2, 1, HMS(9, 0, 0), HMS(10, 0, 0)>>}

NextGet ==
    \/ \E a \in GetCreateArgs : create_booking(a[1], a[2], a[3], a[4], a[5])
    \/ \E booking_id \in BookingIds :
          approve_or_reject_booking("o1", booking_id,
              [approve |-> TRUE, given |-> FALSE, rejection_reason |-> NULL])
    \/ \E u \in Users, booking_id \in 1..(MaxBookings + 1) : get_booking(u, booking_id)

SpecGet == Init /\ [][NextGet]_vars

-----------------------------------------------------------------------------
(* Calls of check_time_slot_available *)

\* The rows of the table the calls run on: a booking of 09:00-10:00 or
\* 10:00-11:00 in any status, on resource 1 tomorrow (the slot asked for), on
\* resource 2 tomorrow, or on resource 1 the day after.  The function reads
\* resource_id, booking_date, status, start_time and end_time of a row only.
StoredRows(res, t) ==
    {[NewBooking(res, t, "c1", k[1], k[2], i[1], i[2]) EXCEPT !.status = st] :
        k \in {<<1, 1>>, <<2, 1>>, <<1, 2>>},
        i \in {<<HMS(9, 0, 0), HMS(10, 0, 0)>>, <<HMS(10, 0, 0), HMS(11, 0, 0)>>},
        st \in BookingStatus}

\* The calls: resource 1, tomorrow, 09:00-10:00, 10:00-11:00, 09:30-10:30,
\* 09:00-10:01 or 11:00-12:00, no booking excluded
AvailArgs ==
    {<<1, 1, i[1], i[2], NULL>> :
        i \in {<<HMS(9, 0, 0), HMS(10, 0, 0)>>, <<HMS(10, 0, 0), HMS(11, 0, 0)>>,
               <<HMS(9, 30, 0), HMS(10, 30, 0)>>, <<HMS(9, 0, 0), HMS(10, 1, 0)>>,
               <<HMS(11, 0, 0), HMS(12, 0, 0)>>}}

InitAvail ==
    /\ now = DateTime(0, HMS(9, 0, 0))
    /\ studios = (1 :> [owner_id |-> "o1", is_active |-> TRUE, is_published |-> TRUE]
               @@ 2 :> [owner_id |-> "o2", is_active |-> TRUE, is_published |-> TRUE])
    /\ resources = (1 :> [studio_id |-> 1, base_price_per_hour |-> 100000, is_active |-> TRUE]
                 @@ 2 :> [studio_id |-> 2, base_price_per_hour |-> 150000, is_active |-> TRUE])
    /\ \E n \in 0..MaxBookings : bookings \in [1..n -> StoredRows(resources, now)]
    /\ next_id = Len(bookings) + 1
    /\ last = Response("none", "none", 0, NULL, NULL, 0, "none")
    /\ reqs = [w \in Workers |-> Idle]
    /\ call \in {[fn |-> "check_time_slot_available", args |-> a, result |-> NULL] :
                    a \in AvailArgs}

check_time_slot_available_call ==
    /\ call.fn = "check_time_slot_available" /\ call.result = NULL
    /\ call' = [call EXCEPT !.result =
                   Some(check_time_slot_available(bookings, call.args[1], call.args[2],
                                                  call.args[3], call.args[4], call.args[5]))]
    /\ UNCHANGED <<now, bookings, next_id, resources, studios, last, reqs>>

NextAvail == check_time_slot_available_call

SpecAvail == InitAvail /\ [][NextAvail]_vars

-----------------------------------------------------------------------------
(* Calls of check_time_slot_available that exclude a booking *)

\* The rows of the table: a booking of 09:00-10:00 or 10:00-11:00 of tomorrow
\* on resource 1 or 2 that is pending, confirmed or cancelled
ExcludeRows(res, t) ==
    {[NewBooking(res, t, "c1", r, 1, i[1], i[2]) EXCEPT !.status = st] :
        r \in {1, 2},
        i \in {<<HMS(9, 0, 0), HMS(10, 0, 0)>>, <<HMS(10, 0, 0), HMS(11, 0, 0)>>},
        st \in {PENDING_APPROVAL, CONFIRMED, CANCELLED}}

\* The calls: resource 1, tomorrow, 09:00-10:00, 09:30-10:30 or 11:00-12:00,
\* excluding booking 0 (no booking has this id), a stored booking or the
\* missing booking MaxBookings + 1
ExcludeArgs ==
    {<<1, 1, i[1], i[2], Some(b)>> :
        i \in {<<HMS(9, 0, 0), HMS(10, 0, 0)>>, <<HMS(9, 30, 0), HMS(10, 30, 0)>>,
               <<HMS(11, 0, 0), HMS(12, 0, 0)>>},
        b \in 0..(MaxBookings + 1)}

InitExclude ==
    /\ now = DateTime(0, HMS(9, 0, 0))
    /\ studios = (1 :> [owner_id |-> "o1", is_active |-> TRUE, is_published |-> TRUE]
               @@ 2 :> [owner_id |-> "o2", is_active |-> TRUE, is_published |-> TRUE])
    /\ resources = (1 :> [studio_id |-> 1, base_price_per_hour |-> 100000, is_active |-> TRUE]
                 @@ 2 :> [studio_id |-> 2, base_price_per_hour |-> 150000, is_active |-> TRUE])
    /\ \E n \in 0..MaxBookings : bookings \in [1..n -> ExcludeRows(resources, now)]
    /\ next_id = Len(bookings) + 1
    /\ last = Response("none", "none", 0, NULL, NULL, 0, "none")
    /\ reqs = [w \in Workers |-> Idle]
    /\ call \in {[fn |-> "check_time_slot_available", args |-> a, result |-> NULL] :
                    a \in ExcludeArgs}

NextExclude == check_time_slot_available_call

SpecExclude == InitExclude /\ [][NextExclude]_vars

-----------------------------------------------------------------------------
(* Calls of calculate_refund_amount *)

\* total amounts, booking dates, start times and cancellation instants of the
\* calls: the lead times include 24:00:00, 23:59:59 and 24:00:01, and
\* cancellations after the start
RefundArgs ==
    {100000, 300000, 1, 12345}
    \X {1, 2}
    \X {HMS(9, 0, 0), HMS(14, 0, 0)}
    \X {DateTime(0, HMS(8, 59, 59)), DateTime(0, HMS(9, 0, 0)), DateTime(0, HMS(9, 0, 1)),
        DateTime(0, HMS(14, 0, 0)), DateTime(1, HMS(9, 0, 0)), DateTime(1, HMS(13, 59, 59)),
        DateTime(1, HMS(14, 0, 0)), DateTime(2, HMS(15, 0, 0))}

InitRefund ==
    /\ InitTables
    /\ call \in {[fn |-> "calculate_refund_amount", args |-> a, result |-> NULL] :
                    a \in RefundArgs}

calculate_refund_amount_call ==
    /\ call.fn = "calculate_refund_amount" /\ call.result = NULL
    /\ call' = [call EXCEPT !.result =
                   Some(calculate_refund_amount(call.args[1], call.args[2],
                                                call.args[3], call.args[4]))]
    /\ UNCHANGED <<now, bookings, next_id, resources, studios, last, reqs>>

NextRefund == calculate_refund_amount_call

SpecRefund == InitRefund /\ [][NextRefund]_vars

-----------------------------------------------------------------------------
(* Calls of calculate_duration_minutes and calculate_booking_price *)

\* start and end times of the calls, whole minutes and times with seconds
DurationTimes ==
    {HMS(9, 0, 0), HMS(9, 0, 30), HMS(9, 0, 59), HMS(9, 1, 0), HMS(9, 30, 0),
     HMS(10, 0, 0), HMS(10, 0, 1), HMS(22, 0, 0)}

DurationArgs == DurationTimes \X DurationTimes

\* hourly rates (0.01, 0.03, 0.09, 0.27, 123.45, 1000.00, 1500.01) and
\* durations of the calls: the multiples of 30 the routes pass, and durations
\* that are no multiple of 3
PriceArgs ==
    {1, 3, 9, 27, 12345, 100000, 150001}
    \X {30, 60, 90, 120, 45, 1, 10, 50, 110}

InitHelpers ==
    /\ InitTables
    /\ call \in {[fn |-> "calculate_duration_minutes", args |-> a, result |-> NULL] :
                    a \in DurationArgs}
              \cup {[fn |-> "calculate_booking_price", args |-> a, result |-> NULL] :
                    a \in PriceArgs}

\* the function has no raise statement and the subtraction of two datetimes
\* of the same day cannot fail: every call returns a number
calculate_duration_minutes_call ==
    /\ call.fn = "calculate_duration_minutes" /\ call.result = NULL
    /\ call' = [call EXCEPT !.result =
                   Some([raised |-> "None",
                         value |-> calculate_duration_minutes(call.args[1], call.args[2])])]
    /\ UNCHANGED <<now, bookings, next_id, resources, studios, last, reqs>>

calculate_booking_price_call ==
    /\ call.fn = "calculate_booking_price" /\ call.result = NULL
    /\ call' = [call EXCEPT !.result =
                   Some(calculate_booking_price(call.args[1], call.args[2]))]
    /\ UNCHANGED <<now, bookings, next_id, resources, studios, last, reqs>>

NextHelpers ==
    \/ calculate_duration_minutes_call
    \/ calculate_booking_price_call

SpecHelpers == InitHelpers /\ [][NextHelpers]_vars

-----------------------------------------------------------------------------
(* Requests served one at a time, writes and reads together *)

\* The requests of SpecFrame: c1 asks for 09:00-10:00 of tomorrow on resource
\* 1, c2 on resource 2; the owner o1 approves, or rejects with a reason; c1
\* cancels; the slots of resource 1 for tomorrow, the bookings of c1, the
\* pending bookings of o1's studios and booking 1 are read
NextFrame ==
    \/ \E a \in GetCreateArgs : create_booking(a[1], a[2], a[3], a[4], a[5])
    \/ \E a \in {x \in SlotsDecideArgs : x[1] = "o1"}, booking_id \in BookingIds :
          approve_or_reject_booking(a[1], booking_id, a[2])
    \/ \E booking_id \in BookingIds : cancel_booking("c1", booking_id, "schedule conflict")
    \/ get_available_slots(1, 1)
    \/ get_my_bookings("c1")
    \/ get_pending_bookings("o1")
    \/ get_booking("c1", 1)

SpecFrame == Init /\ [][NextFrame]_vars

-----------------------------------------------------------------------------
(* utils/booking_helpers.py: generate_time_slots, one iteration of the while
   loop per step; routes/booking.py: the slot loop of get_available_slots *)

FitsBeforeEnd_Always(current, end_dt) == TRUE

\* "if current <= end_dt": the window is kept when it does not end after end_dt
FitsBeforeEnd(current, end_dt) == current <= end_dt

\* datetime.time(): the time of day of an instant given in seconds since
\* 00:00:00 of today
TimeOfDay(dt) == dt % (24 * 3600)

\* start times, end times and intervals (minutes) of the calls: whole and
\* partial trailing windows, end <= start, an interval of one day
GenerateArgs ==
    {HMS(9, 0, 0), HMS(9, 0, 30), HMS(21, 0, 0)}
    \X {HMS(8, 0, 0), HMS(9, 0, 0), HMS(9, 59, 59), HMS(10, 0, 0), HMS(22, 0, 0)}
    \X {1, 7, 30, 45, 60, 1440}

\* slots = []; current = datetime.combine(date.today(), start_time)
InitGenerate ==
    /\ InitTables
    /\ call \in {[fn |-> "generate_time_slots", args |-> a, result |-> NULL,
                  current |-> a[1], slots |-> <<>>] : a \in GenerateArgs}
              \cup {NoCall}

\* one iteration of "while current < end_dt"
generate_time_slots_loop ==
    /\ call.fn = "generate_time_slots" /\ call.result = NULL
    /\ call.current < call.args[2]
    /\ LET slot_start == TimeOfDay(call.current)
           current == call.current + call.args[3] * 60
           slot_end == TimeOfDay(current)
       IN  call' = [call EXCEPT !.current = current,
                                !.slots = IF FitsBeforeEnd(current, call.args[2])
                                          THEN Append(@, <<slot_start, slot_end>>)
                                          ELSE @]
    /\ UNCHANGED <<now, bookings, next_id, resources, studios, last, reqs>>

\* the loop condition is false: return slots
generate_time_slots_return ==
    /\ call.fn = "generate_time_slots" /\ call.result = NULL
    /\ ~(call.current < call.args[2])
    /\ call' = [call EXCEPT !.result = Some(call.slots)]
    /\ UNCHANGED <<now, bookings, next_id, resources, studios, last, reqs>>

NextGenerate ==
    \/ generate_time_slots_loop
    \/ generate_time_slots_return
    \/ (call = NoCall /\ get_available_slots(1, 1))

\* a call that can take a step takes it: the function runs to its end
SpecGenerate == InitGenerate /\ [][NextGenerate]_vars /\ WF_vars(NextGenerate)

-----------------------------------------------------------------------------
(* Requests served one at a time, intervals on and off the grid of the slots *)

\* The requests of SpecGrid: c1 asks on resource 1 for tomorrow 09:00-09:30,
\* 09:00:00-09:30:30, 09:15-09:45, 21:30-22:00 or 22:00-23:00; the owner o1
\* approves; c1 cancels; the slots of resource 1 for tomorrow are listed
GridCreateArgs ==
    {<<"c1", 1, 1, i[1], i[2]>> :
        i \in {<<HMS(9, 0, 0), HMS(9, 30, 0)>>, <<HMS(9, 0, 0), HMS(9, 30, 30)>>,
               <<HMS(9, 15, 0), HMS(9, 45, 0)>>, <<HMS(21, 30, 0), HMS(22, 0, 0)>>,
               <<HMS(22, 0, 0), HMS(23, 0, 0)>>}}

NextGrid ==
    \/ \E a \in GridCreateArgs : create_booking(a[1], a[2], a[3], a[4], a[5])
    \/ \E booking_id \in BookingIds :
          approve_or_reject_booking("o1", booking_id,
              [approve |-> TRUE, given |-> FALSE, rejection_reason |-> NULL])
    \/ \E booking_id \in BookingIds : cancel_booking("c1", booking_id, "schedule conflict")
    \/ get_available_slots(1, 1)

SpecGrid == Init /\ [][NextGrid]_vars

-----------------------------------------------------------------------------
(* Requests served one at a time, a slot list followed by a booking request *)

\* The requests of SpecAgree: c1 asks on resource 1 for a slot of tomorrow or
\* of yesterday, or for an hour of tomorrow; the owner o1 changes the hourly
\* rate to 1000.01, unpublishes or publishes the studio; c1 cancels; the slots
\* of resource 1 are listed for tomorrow and for yesterday
AgreeCreateArgs ==
    {<<"c1", 1, 1, HMS(9, 0, 0), HMS(9, 30, 0)>>,
     <<"c1", 1, 1, HMS(9, 0, 0), HMS(10, 0, 0)>>,
     <<"c1", 1, -1, HMS(9, 0, 0), HMS(9, 30, 0)>>}

AgreeListArgs == {<<1, 1>>, <<1, -1>>}

NextAgree ==
    \/ \E a \in AgreeCreateArgs : create_booking(a[1], a[2], a[3], a[4], a[5])
    \/ update_resource("o1", 1, [base_price_per_hour |-> Some(100001), is_active |-> NULL])
    \/ \E p \in BOOLEAN : update_studio("o1", 1, [is_published |-> Some(p)])
    \/ \E booking_id \in BookingIds : cancel_booking("c1", booking_id, "schedule conflict")
    \/ \E a \in AgreeListArgs : get_available_slots(a[1], a[2])

SpecAgree == Init /\ [][NextAgree]_vars

-----------------------------------------------------------------------------
(* Requests served one at a time, cancellations at several lead times *)

\* The requests of SpecCancel, the clock reading 09:00 of today: c1 asks on
\* resource 1 for 08:00-09:00 of today (already begun), 14:00-15:00 of today
\* (5 hours ahead), 08:00-09:00 of tomorrow (23 hours), 09:00-10:00 of
\* tomorrow (24 hours) or 09:00-10:00 of the day after; the owner o1 approves
\* or changes the hourly rate to 1000.01; c1 cancels
CancelCreateArgs ==
    {<<"c1", 1, i[1], i[2], i[2] + 3600>> :
        i \in {<<0, HMS(8, 0, 0)>>, <<0, HMS(14, 0, 0)>>, <<1, HMS(8, 0, 0)>>,
               <<1, HMS(9, 0, 0)>>, <<2, HMS(9, 0, 0)>>}}

NextCancel ==
    \/ \E a \in CancelCreateArgs : create_booking(a[1], a[2], a[3], a[4], a[5])
    \/ \E booking_id \in BookingIds :
          approve_or_reject_booking("o1", booking_id,
              [approve |-> TRUE, given |-> FALSE, rejection_reason |-> NULL])
    \/ update_resource("o1", 1, [base_price_per_hour |-> Some(100001), is_active |-> NULL])
    \/ \E booking_id \in BookingIds : cancel_booking("c1", booking_id, "schedule conflict")

SpecCancel == Init /\ [][NextCancel]_vars

-----------------------------------------------------------------------------
(* Claims on the booking lifecycle, requests served one at a time (Spec) *)

TerminalStatuses == {CANCELLED, REFUNDED, COMPLETED}

\* the row of the booking of the last request, before and after it
Before == Val(last.before)
After == bookings[last.booking_id]

OnBooking(ops) == last.op \in ops /\ last.before # NULL

\* the caller of the last request is the one its operation is reserved to
Authorised ==
    IF last.op = "cancel" THEN Before.user_id = last.caller
    ELSE role(last.caller) = "owner" /\ studios[Before.studio_id].owner_id = last.caller

\* C4 as stated: once a booking is CANCELLED, REFUNDED or COMPLETED, every
\* approve, reject or cancel call on it (a request with a valid body) fails
\* with InvalidTransition and leaves every field of the booking unchanged.
C4_TerminalAlwaysInvalidTransition ==
    (/\ OnBooking({"approve", "reject", "cancel"})
     /\ Before.status \in TerminalStatuses
     /\ ErrorKind(last) # "ValidationError")
    => ErrorKind(last) = "InvalidTransition" /\ After = Before

\* C4 amended: an approve, reject or cancel call on a booking that is
\* CANCELLED, REFUNDED or COMPLETED fails and leaves every field of the booking
\* unchanged (a second cancel keeps cancelled_at, cancel_reason,
\* refund_percentage and refund_amount of the first); the error is
\* InvalidTransition when the caller is the one the operation is reserved to
\* (the owner of the booking's studio for approve and reject, the booking's
\* customer for cancel) and Forbidden for any other caller.
C4_TerminalGuard ==
    (OnBooking({"approve", "reject", "cancel"}) /\ Before.status \in TerminalStatuses)
    => /\ After = Before
       /\ last.status_code # 200
       /\ ErrorKind(last) # "ValidationError"
          => ErrorKind(last) = (IF Authorised THEN "InvalidTransition" ELSE "Forbidden")

\* a second cancel by the booking's customer was refused: the booking is still
\* CANCELLED with the fields of the first cancel
C4_Witness ==
    /\ OnBooking({"cancel"})
    /\ Before.status = CANCELLED
    /\ Authorised
    /\ ErrorKind(last) = "InvalidTransition"
    /\ After.cancelled_at # NULL

C7_RejectNeedsReason ==
    /\ (OnBooking({"reject"}) /\ Authorised /\ ~Truthy(last.reason))
       => ErrorKind(last) = "ValidationError" /\ After = Before
    /\ \A b \in DOMAIN bookings :
          bookings[b].status = REJECTED => Truthy(bookings[b].rejection_reason)

\* C8: for a request with a valid body, cancel_booking succeeds exactly when
\* the caller is the booking's customer and the status is none of CANCELLED,
\* REFUNDED, COMPLETED; it sets CANCELLED, cancelled_at, the given
\* cancel_reason, and the refund percentage and amount that
\* calculate_refund_amount gives for the booking's total_amount, booking_date,
\* start_time and the instant of the cancellation, and changes nothing else;
\* a caller who is not the booking's customer gets Forbidden and the booking
\* is unchanged.
C8_CancelByCustomerOfLiveBooking ==
    (OnBooking({"cancel"}) /\ ErrorKind(last) # "ValidationError")
    => /\ last.status_code = 200
          <=> (Before.user_id = last.caller /\ Before.status \notin TerminalStatuses)
       /\ last.status_code = 200
          => /\ After.cancelled_at = Some(now)
             /\ After = [Before EXCEPT
                   !.status = CANCELLED,
                   !.cancelled_at = Some(now),
                   !.cancel_reason = last.reason,
                   !.refund_percentage = Some(calculate_refund_amount(
                       Before.total_amount, Before.booking_date, Before.start_time, now)[1]),
                   !.refund_amount = Some(calculate_refund_amount(
                       Before.total_amount, Before.booking_date, Before.start_time, now)[2])]
       /\ Before.user_id # last.caller
          => ErrorKind(last) = "Forbidden" /\ After = Before

\* the customer cancelled an approved booking of tomorrow 09:00 exactly 24 hours
\* ahead: 80 percent of 1000.00 is refunded
C8_Witness ==
    /\ OnBooking({"cancel"})
    /\ last.status_code = 200
    /\ Before.status = APPROVED
    /\ After.status = CANCELLED
    /\ After.refund_percentage = Some(80)
    /\ After.refund_amount = Some(80000)

\* C9 as stated: a booking becomes CANCELLED only from PENDING_APPROVAL,
\* APPROVED, CONFIRMED or CHECKED_IN, and cancel_booking on a booking in any
\* other status (REJECTED included) fails and leaves the status unchanged.
C9_CancelOnlyFromActive ==
    /\ (OnBooking({"approve", "reject", "cancel"})
           /\ After.status = CANCELLED /\ Before.status # CANCELLED)
       => Before.status \in ActiveStatuses
    /\ (OnBooking({"cancel"}) /\ Before.status \notin ActiveStatuses)
       => last.status_code # 200 /\ After.status = Before.status

\* C9 amended: a booking becomes CANCELLED only from PENDING_APPROVAL,
\* APPROVED, REJECTED, CONFIRMED or CHECKED_IN, and cancel_booking on a booking
\* in any other status (CANCELLED, REFUNDED, COMPLETED) fails and leaves the
\* status unchanged.
C9_CancelOnlyFromNonTerminal ==
    /\ (OnBooking({"approve", "reject", "cancel"})
           /\ After.status = CANCELLED /\ (After # Before))
       => Before.status \in ActiveStatuses \cup {REJECTED}
    /\ (OnBooking({"cancel"}) /\ Before.status \notin ActiveStatuses \cup {REJECTED})
       => last.status_code # 200 /\ After.status = Before.status

\* the customer cancelled a booking that the owner had rejected
C9_Witness ==
    /\ OnBooking({"cancel"})
    /\ last.status_code = 200
    /\ Before.status = REJECTED
    /\ After.status = CANCELLED

-----------------------------------------------------------------------------
(* Claims on double booking *)

\* C2: with requests served one at a time, no two distinct bookings of the same
\* resource and date, both with a status in {PENDING_APPROVAL, APPROVED,
\* CONFIRMED, CHECKED_IN}, have overlapping half-open intervals [start, end).
C2_NoOverlappingActive ==
    \A b1 \in DOMAIN bookings, b2 \in DOMAIN bookings :
        (/\ b1 # b2
         /\ bookings[b1].resource_id = bookings[b2].resource_id
         /\ bookings[b1].booking_date = bookings[b2].booking_date
         /\ bookings[b1].status \in {PENDING_APPROVAL, APPROVED, CONFIRMED, CHECKED_IN}
         /\ bookings[b2].status \in {PENDING_APPROVAL, APPROVED, CONFIRMED, CHECKED_IN})
        => (bookings[b1].end_time <= bookings[b2].start_time
            \/ bookings[b2].end_time <= bookings[b1].start_time)

\* a create was refused with Conflict while two active bookings of the same
\* resource and date touch at 09:30
C2_Witness ==
    /\ last.op = "create" /\ ErrorKind(last) = "Conflict"
    /\ \E b1 \in DOMAIN bookings, b2 \in DOMAIN bookings :
          /\ bookings[b1].resource_id = bookings[b2].resource_id
          /\ bookings[b1].booking_date = bookings[b2].booking_date
          /\ bookings[b1].status = APPROVED
          /\ bookings[b2].status = PENDING_APPROVAL
          /\ bookings[b1].end_time = bookings[b2].start_time

\* C1: of the concurrent create_booking requests for one (resource, date,
\* start, end) exactly one succeeds: no state holds two active bookings of that
\* interval, and no two requests hold a 201 response for it while both their
\* bookings are active.
C1_OneWinnerPerInterval ==
    /\ \A b1 \in DOMAIN bookings, b2 \in DOMAIN bookings :
          (/\ b1 # b2
           /\ bookings[b1].resource_id = bookings[b2].resource_id
           /\ bookings[b1].booking_date = bookings[b2].booking_date
           /\ bookings[b1].start_time = bookings[b2].start_time
           /\ bookings[b1].end_time = bookings[b2].end_time)
          => ~(bookings[b1].status \in ActiveStatuses /\ bookings[b2].status \in ActiveStatuses)
    /\ \A w1 \in Workers, w2 \in Workers :
          (/\ w1 # w2
           /\ reqs[w1].pc = "done" /\ reqs[w1].op = "create" /\ reqs[w1].status_code = 201
           /\ reqs[w2].pc = "done" /\ reqs[w2].op = "create" /\ reqs[w2].status_code = 201)
          => ~(/\ bookings[reqs[w1].booking_id].status = PENDING_APPROVAL
               /\ bookings[reqs[w2].booking_id].status = PENDING_APPROVAL)

\* C3: under any interleaving of approve, reject and cancel requests, every
\* committed change of a booking's status is a transition that is valid from
\* the status the booking has when the change is committed: approve and reject
\* from PENDING_APPROVAL only, cancel from no terminal status; a CANCELLED
\* booking never becomes APPROVED or REJECTED.
C3_TransitionsValidAtCommit ==
    [][\A b \in DOMAIN bookings :
          bookings'[b].status # bookings[b].status
          => \/ /\ bookings[b].status = PENDING_APPROVAL
                /\ bookings'[b].status \in {APPROVED, REJECTED}
             \/ /\ bookings[b].status \notin {CANCELLED, REFUNDED, COMPLETED}
                /\ bookings'[b].status = CANCELLED]_vars

-----------------------------------------------------------------------------
(* Claims on the refund *)

-----------------------------------------------------------------------------
(* Claims on create_booking, requests served one at a time (SpecCreate) *)

\* no booking of the resource and date with a status that reserves the slot
\* overlaps the half-open interval [start_time, end_time)
Free(bk, resource_id, booking_date, start_time, end_time) ==
    ~\E b \in DOMAIN bk :
        /\ bk[b].resource_id = resource_id
        /\ bk[b].booking_date = booking_date
        /\ bk[b].status \in {PENDING_APPROVAL, APPROVED, CONFIRMED, CHECKED_IN}
        /\ start_time < bk[b].end_time
        /\ end_time > bk[b].start_time

\* C11: every successful create_booking persists exactly one new booking and
\* leaves the others as they are; the new booking is PENDING_APPROVAL, its
\* customer is the caller, its studio is the studio of the requested resource,
\* its duration_minutes is the number of minutes from start to end, its
\* total_amount is the resource's hourly rate at creation time times the
\* duration in hours, rounded to hundredths, and its approval and cancellation
\* metadata are null; a rate of 1500.00 and 14:00-16:00 give 120 and 3000.00.
C11_CreatePersistsPending ==
    [][(last'.op = "create" /\ last'.status_code = 201 /\ last' # last)
       => LET a == last'.args
              id == last'.booking_id
              rate == resources[a[1]].base_price_per_hour
          IN  /\ id \notin DOMAIN bookings
              /\ DOMAIN bookings' = DOMAIN bookings \cup {id}
              /\ \A b \in DOMAIN bookings : bookings'[b] = bookings[b]
              /\ bookings'[id].status = PENDING_APPROVAL
              /\ bookings'[id].user_id = last'.caller
              /\ bookings'[id].resource_id = a[1]
              /\ bookings'[id].studio_id = resources[a[1]].studio_id
              /\ bookings'[id].booking_date = a[2]
              /\ bookings'[id].start_time = a[3]
              /\ bookings'[id].end_time = a[4]
              /\ bookings'[id].duration_minutes * 60 = a[4] - a[3]
              /\ 2 * (60 * bookings'[id].total_amount
                        - rate * bookings'[id].duration_minutes) <= 60
              /\ 2 * (rate * bookings'[id].duration_minutes
                        - 60 * bookings'[id].total_amount) <= 60
              /\ (rate = 150000 /\ a[3] = HMS(14, 0, 0) /\ a[4] = HMS(16, 0, 0))
                 => (bookings'[id].duration_minutes = 120
                     /\ bookings'[id].total_amount = 300000)
              /\ bookings'[id].approved_at = NULL
              /\ bookings'[id].approved_by = NULL
              /\ bookings'[id].rejection_reason = NULL
              /\ bookings'[id].cancelled_at = NULL
              /\ bookings'[id].cancel_reason = NULL
              /\ bookings'[id].refund_percentage = NULL
              /\ bookings'[id].refund_amount = NULL]_vars

\* after the rate of resource 1 was raised to 1500.00, a create for 14:00-16:00
\* succeeded: 120 minutes, 3000.00
C11_Witness ==
    /\ last.op = "create" /\ last.status_code = 201
    /\ last.args[3] = HMS(14, 0, 0) /\ last.args[4] = HMS(16, 0, 0)
    /\ resources[last.args[1]].base_price_per_hour = 150000
    /\ bookings[last.booking_id].duration_minutes = 120
    /\ bookings[last.booking_id].total_amount = 300000
    /\ bookings[last.booking_id].status = PENDING_APPROVAL

\* C12: create_booking persists a booking only if, when it is called, the
\* resource exists and is active, its studio is active and published, the
\* interval is available and the duration is at least 30 minutes and a multiple
\* of 30; if any of these fails the call returns an error and the bookings are
\* unchanged; for a customer's request with a date not in the past and
\* end > start, a missing resource gives NotFound, and an unavailable interval
\* on an active resource of an active published studio gives Conflict.
C12_CreateOnlyIfConditions ==
    [][(last'.op = "create" /\ last' # last)
       => LET a == last'.args
              exists == a[1] \in DOMAIN resources
              open == /\ exists
                      /\ resources[a[1]].is_active
                      /\ studios[resources[a[1]].studio_id].is_active
                      /\ studios[resources[a[1]].studio_id].is_published
              free == Free(bookings, a[1], a[2], a[3], a[4])
              conditions == /\ open
                            /\ free
                            /\ a[4] - a[3] >= 30 * 60
                            /\ (a[4] - a[3]) % (30 * 60) = 0
              well_formed == /\ role(last'.caller) = "customer"
                             /\ a[2] >= Today(now)
                             /\ a[4] > a[3]
          IN  /\ bookings' # bookings => conditions
              /\ ~conditions => (last'.status_code \notin {200, 201} /\ bookings' = bookings)
              /\ (well_formed /\ ~exists) => ErrorKind(last') = "NotFound"
              /\ (well_formed /\ open /\ ~free) => ErrorKind(last') = "Conflict"]_vars

\* a create on resource 1 was refused while its studio is unpublished, and the
\* bookings made before are still there
C12_Witness ==
    /\ last.op = "create" /\ last.args[1] = 1
    /\ last.status_code = 400 /\ last.detail = "studio_closed"
    /\ ~studios[1].is_published
    /\ bookings # <<>>

\* C13: every persisted booking has end_time > start_time,
\* duration_minutes >= 30 and duration_minutes mod 30 = 0.
C13_PersistedIntervalsValid ==
    \A b \in DOMAIN bookings :
        /\ bookings[b].end_time > bookings[b].start_time
        /\ bookings[b].duration_minutes >= 30
        /\ bookings[b].duration_minutes % 30 = 0

\* a create for the free 45 minutes 09:30-10:15 was refused ("increments")
\* while another booking is stored
C13_Witness ==
    /\ last.op = "create" /\ last.status_code = 400 /\ last.detail = "increments"
    /\ last.args[4] - last.args[3] = 45 * 60
    /\ bookings # <<>>

-----------------------------------------------------------------------------
(* Claims on the price of a booking (SpecPrice) *)

\* C14: the total_amount of a booking never changes after creation: approve,
\* reject, cancel and update_resource leave the total_amount of every existing
\* booking unchanged (update_resource leaves the whole table unchanged), and a
\* booking created after a change of the rate is priced at the new rate.
C14_TotalAmountFrozen ==
    [][/\ \A b \in DOMAIN bookings :
             b \in DOMAIN bookings' /\ bookings'[b].total_amount = bookings[b].total_amount
       /\ resources' # resources => bookings' = bookings
       /\ \A b \in DOMAIN bookings' \ DOMAIN bookings :
             60 * bookings'[b].total_amount =
                resources'[bookings'[b].resource_id].base_price_per_hour
                   * bookings'[b].duration_minutes]_vars

\* booking 1 was created at 1000.00 per hour and approved, the rate was raised
\* to 1500.00, and booking 2 of the same length costs 1500.00
C14_Witness ==
    /\ DOMAIN bookings = {1, 2}
    /\ bookings[1].status = APPROVED
    /\ bookings[1].total_amount = 100000
    /\ bookings[2].total_amount = 150000
    /\ bookings[1].duration_minutes = bookings[2].duration_minutes
    /\ resources[1].base_price_per_hour = 150000

-----------------------------------------------------------------------------
(* Claims on the availability check (SpecAvail, SpecCreate) *)

\* C15: check_time_slot_available(resource, date, start, end) returns false
\* exactly when some booking of the same resource and date with a status in
\* {PENDING_APPROVAL, APPROVED, CONFIRMED, CHECKED_IN} has start < its end_time
\* and end > its start_time; a table whose bookings are all REJECTED,
\* CANCELLED, REFUNDED or COMPLETED, of another resource or on another date
\* gives true.
C15_UnavailableIffActiveOverlap ==
    (call.fn = "check_time_slot_available" /\ call.result # NULL)
    => /\ Val(call.result) = FALSE
          <=> \E b \in DOMAIN bookings :
                 /\ bookings[b].resource_id = call.args[1]
                 /\ bookings[b].booking_date = call.args[2]
                 /\ bookings[b].status \in {PENDING_APPROVAL, APPROVED, CONFIRMED, CHECKED_IN}
                 /\ call.args[3] < bookings[b].end_time
                 /\ call.args[4] > bookings[b].start_time
       /\ (\A b \in DOMAIN bookings :
              \/ bookings[b].status \in {REJECTED, CANCELLED, REFUNDED, COMPLETED}
              \/ bookings[b].resource_id # call.args[1]
              \/ bookings[b].booking_date # call.args[2])
          => Val(call.result) = TRUE

\* 09:30-10:30 was reported unavailable because of a CHECKED_IN booking of
\* 10:00-11:00, the other booking of the slot being COMPLETED
C15_Witness ==
    /\ call.fn = "check_time_slot_available" /\ call.result = Some(FALSE)
    /\ call.args[3] = HMS(9, 30, 0)
    /\ Len(bookings) = 2
    /\ bookings[1].status = COMPLETED /\ bookings[1].resource_id = 1
    /\ bookings[1].booking_date = 1 /\ bookings[1].start_time = HMS(9, 0, 0)
    /\ bookings[2].status = CHECKED_IN /\ bookings[2].resource_id = 1
    /\ bookings[2].booking_date = 1 /\ bookings[2].start_time = HMS(10, 0, 0)

\* C16: the overlap test is symmetric: with one active booking on B in the
\* table, a request for A (start < end each, same resource and date) gets the
\* answer that a request for B gets with the booking on A instead.
C16_OverlapSymmetric ==
    (/\ call.fn = "check_time_slot_available" /\ call.result # NULL
     /\ Len(bookings) = 1
     /\ bookings[1].status \in {PENDING_APPROVAL, APPROVED, CONFIRMED, CHECKED_IN}
     /\ bookings[1].resource_id = call.args[1]
     /\ bookings[1].booking_date = call.args[2])
    => Val(call.result) =
          check_time_slot_available(
              <<[bookings[1] EXCEPT !.start_time = call.args[3], !.end_time = call.args[4]]>>,
              call.args[1], call.args[2], bookings[1].start_time, bookings[1].end_time, NULL)

\* the request 09:30-10:30 met the approved booking 10:00-11:00: unavailable
C16_Witness ==
    /\ call.fn = "check_time_slot_available" /\ call.result = Some(FALSE)
    /\ call.args[3] = HMS(9, 30, 0) /\ call.args[4] = HMS(10, 30, 0)
    /\ Len(bookings) = 1
    /\ bookings[1].status = APPROVED
    /\ bookings[1].resource_id = 1 /\ bookings[1].booking_date = 1
    /\ bookings[1].start_time = HMS(10, 0, 0)

\* C17: a customer's create_booking (date not past, end > start) on an active
\* resource of an active published studio is refused with Conflict exactly when
\* an active booking [s, e) of the resource and date has start < e and
\* end > s; intervals that touch at an endpoint do not conflict: 10:00-11:00
\* next to bookings of 09:00-10:00 only is not refused with Conflict, while
\* 09:00-10:01 against an active 10:00-11:00 is.
C17_TouchingIntervalsCompatible ==
    [][(/\ last'.op = "create" /\ last' # last
        /\ role(last'.caller) = "customer"
        /\ last'.args[2] >= Today(now)
        /\ last'.args[4] > last'.args[3]
        /\ last'.args[1] \in DOMAIN resources
        /\ resources[last'.args[1]].is_active
        /\ studios[resources[last'.args[1]].studio_id].is_active
        /\ studios[resources[last'.args[1]].studio_id].is_published)
       => LET a == last'.args
              rivals == {b \in DOMAIN bookings :
                            /\ bookings[b].resource_id = a[1]
                            /\ bookings[b].booking_date = a[2]
                            /\ bookings[b].status \in
                                  {PENDING_APPROVAL, APPROVED, CONFIRMED, CHECKED_IN}}
          IN  /\ ErrorKind(last') = "Conflict"
                 <=> \E b \in rivals :
                        a[3] < bookings[b].end_time /\ a[4] > bookings[b].start_time
              /\ (\A b \in rivals :
                     a[3] = bookings[b].end_time \/ a[4] = bookings[b].start_time)
                 => ErrorKind(last') # "Conflict"
              /\ (/\ a[3] = HMS(9, 0, 0) /\ a[4] = HMS(10, 1, 0)
                  /\ \E b \in rivals : bookings[b].start_time = HMS(10, 0, 0)
                                       /\ bookings[b].end_time = HMS(11, 0, 0))
                 => ErrorKind(last') = "Conflict"]_vars

\* 10:00-11:00 was created while the booking 09:00-10:00 of the same resource
\* and date is pending: both are active and touch at 10:00
C17_Witness ==
    /\ last.op = "create" /\ last.status_code = 201
    /\ last.args[3] = HMS(10, 0, 0) /\ last.args[4] = HMS(11, 0, 0)
    /\ \E b \in DOMAIN bookings :
          /\ b # last.booking_id
          /\ bookings[b].resource_id = last.args[1]
          /\ bookings[b].booking_date = last.args[2]
          /\ bookings[b].status = PENDING_APPROVAL
          /\ bookings[b].end_time = HMS(10, 0, 0)

-----------------------------------------------------------------------------
(* Claims on the slot list (SpecList) *)

\* C18: for an existing active resource and any date, get_available_slots
\* returns exactly 26 slots; slot i (i = 0..25) starts at 09:00 + 30*i minutes
\* and ends 30 minutes later, so the slots are increasing, contiguous and end at
\* 22:00; is_available of a slot is the answer of the availability check for
\* that window on the tables of the call, and its price is the resource's rate
\* for 30 minutes rounded to hundredths (ties to even).
C18_SlotsOfTheDay ==
    [][(/\ call' # call
        /\ call'.fn = "get_available_slots"
        /\ call'.args[1] \in DOMAIN resources
        /\ resources[call'.args[1]].is_active)
       => LET slots == Val(call'.result).slots
              rate == resources[call'.args[1]].base_price_per_hour
          IN  /\ Val(call'.result).status_code = 200
              /\ Len(slots) = 26
              /\ \A i \in 1..Len(slots) :
                    /\ slots[i].start_time = (9 * 60 + 30 * (i - 1)) * 60
                    /\ slots[i].end_time = slots[i].start_time + 30 * 60
                    /\ slots[i].is_available =
                          Free(bookings, call'.args[1], call'.args[2],
                               slots[i].start_time, slots[i].end_time)
                    /\ 2 * (60 * slots[i].price - rate * 30) <= 60
                    /\ 2 * (rate * 30 - 60 * slots[i].price) <= 60
                    /\ (rate * 30) % 60 = 30 => slots[i].price % 2 = 0
              /\ \A i \in 1..(Len(slots) - 1) : slots[i].end_time = slots[i + 1].start_time
              /\ slots[Len(slots)].end_time = 22 * 3600]_vars

\* the list of resource 1 for tomorrow, with a booking of 09:00-10:00 and the
\* rate 1000.01: 26 slots at 500.00, the first two taken, the third free
C18_Witness ==
    /\ call.fn = "get_available_slots" /\ call.args = <<1, 1>>
    /\ Val(call.result).status_code = 200
    /\ Len(Val(call.result).slots) = 26
    /\ ~Val(call.result).slots[1].is_available
    /\ ~Val(call.result).slots[2].is_available
    /\ Val(call.result).slots[3].is_available
    /\ Val(call.result).slots[26].end_time = HMS(22, 0, 0)
    /\ Val(call.result).slots[1].price = 50000
    /\ resources[1].base_price_per_hour = 100001

-----------------------------------------------------------------------------
(* Claims on the errors of approve_or_reject_booking (Spec) and of
   create_booking (SpecCreate) *)

\* C19: approve_or_reject_booking called by a user with the owner role and a
\* body that passes the schema returns NotFound when the booking does not
\* exist, Forbidden when the caller is not the owner of the booking's studio,
\* whatever the booking's status (a caller without the owner role gets
\* Forbidden too), and InvalidTransition, with the current status in the
\* detail, when the caller is the studio's owner and the status is not
\* PENDING_APPROVAL; in all these cases no field of any booking changes.
C19_DecideErrors ==
    [][(last' # last /\ last'.op \in {"approve", "reject"})
       => LET id == last'.booking_id
              u == last'.caller
              valid == ErrorKind(last') # "ValidationError"
          IN  /\ role(u) # "owner"
                 => (ErrorKind(last') = "Forbidden" /\ bookings' = bookings)
              /\ (role(u) = "owner" /\ valid /\ id \notin DOMAIN bookings)
                 => (ErrorKind(last') = "NotFound" /\ bookings' = bookings)
              /\ (/\ role(u) = "owner" /\ valid /\ id \in DOMAIN bookings
                  /\ studios[bookings[id].studio_id].owner_id # u)
                 => (ErrorKind(last') = "Forbidden" /\ bookings' = bookings)
              /\ (/\ role(u) = "owner" /\ valid /\ id \in DOMAIN bookings
                  /\ studios[bookings[id].studio_id].owner_id = u
                  /\ bookings[id].status # PENDING_APPROVAL)
                 => /\ ErrorKind(last') = "InvalidTransition"
                    /\ last'.status_in_detail = bookings[id].status
                    /\ bookings' = bookings]_vars

\* the studio's owner tried to reject a booking it had approved: refused, the
\* detail names the status "approved"
C19_Witness ==
    /\ OnBooking({"reject"})
    /\ Authorised
    /\ Before.status = APPROVED
    /\ ErrorKind(last) = "InvalidTransition"
    /\ last.status_in_detail = APPROVED
    /\ After = Before

\* C20: a customer's create_booking on an existing, active resource of an
\* active published studio whose time range is invalid (end <= start, date
\* before today, duration under 30 minutes or no multiple of 30) fails with
\* InvalidInterval (the refusals of the body by the schema, on booking_date and
\* on end_time, are counted as InvalidInterval here) whatever the table of
\* bookings holds, and persists nothing; Conflict is returned only for a valid
\* interval that is unavailable.
C20_InvalidRangeIsInvalidInterval ==
    (/\ last.op = "create"
     /\ role(last.caller) = "customer"
     /\ last.args[1] \in DOMAIN resources
     /\ resources[last.args[1]].is_active
     /\ studios[resources[last.args[1]].studio_id].is_active
     /\ studios[resources[last.args[1]].studio_id].is_published)
    => LET a == last.args
           invalid == \/ a[4] <= a[3]
                      \/ a[2] < Today(now)
                      \/ (a[4] - a[3]) \div 60 < 30
                      \/ ((a[4] - a[3]) \div 60) % 30 # 0
       IN  /\ invalid
              => /\ last.status_code # 201
                 /\ \/ ErrorKind(last) = "InvalidInterval"
                    \/ (last.status_code = 422 /\ last.detail \in {"booking_date", "end_time"})
           /\ ErrorKind(last) = "Conflict" => ~invalid

-----------------------------------------------------------------------------
(* Claims on the helper functions (SpecHelpers) *)

\* C21: calculate_duration_minutes(start, end) returns the whole number of
\* minutes from start to end when end > start, and fails with InvalidInterval,
\* returning no number, whenever end <= start.
C21_DurationOrInvalidInterval ==
    (call.fn = "calculate_duration_minutes" /\ call.result # NULL)
    => LET start_time == call.args[1]
           end_time == call.args[2]
           res == Val(call.result)
       IN  /\ end_time > start_time
              => /\ res.raised = "None"
                 /\ 60 * res.value <= end_time - start_time
                 /\ end_time - start_time < 60 * (res.value + 1)
           /\ end_time <= start_time => res.raised = "InvalidInterval"

\* rate * d / 60 rounded to a whole number of hundredths, ties upwards
RoundHalfUp(num, den) == (2 * num + den) \div (2 * den)

\* C22: for every hourly rate with two decimals price(rate, 60) = rate,
\* price(rate, 30) = rate / 2 and price(rate, 90) = rate * 1.5 rounded to two
\* decimals, and in general price(rate, d) is the exact value of
\* rate * d / 60 rounded to two decimals, under one of the two tie-breaking
\* rules the specification allows (half-up or half-even).
C22_PriceIsExactRounded ==
    (call.fn = "calculate_booking_price" /\ call.result # NULL)
    => LET rate == call.args[1]
           d == call.args[2]
           amount == Val(call.result)
       IN  /\ d = 60 => amount = rate
           /\ \/ amount = RoundHalfUp(rate * d, 60)
              \/ amount = RoundHalfEven(rate * d, 60)

-----------------------------------------------------------------------------
(* Claims on the persistence of bookings (SpecDelete) *)

\* the columns of a booking that no transition may change
Identity(row) ==
    <<row.user_id, row.resource_id, row.studio_id, row.booking_date,
      row.start_time, row.end_time, row.duration_minutes, row.total_amount>>

\* C23: a booking is never physically deleted: in every step the set of the
\* persisted booking identifiers only grows, a booking that exists keeps its
\* customer, resource, studio, date, times and amount (a change is an in-place
\* update of its status and metadata), and no operation, delete_resource and
\* delete_studio included, removes a booking.
C23_BookingsNeverDeleted ==
    [][/\ DOMAIN bookings \subseteq DOMAIN bookings'
       /\ \A b \in DOMAIN bookings \cap DOMAIN bookings' :
             Identity(bookings'[b]) = Identity(bookings[b])]_vars

\* C24: in every reachable state the status of every booking is one of
\* PENDING_APPROVAL, APPROVED, REJECTED and CANCELLED; no operation assigns
\* CONFIRMED, CHECKED_IN, COMPLETED or REFUNDED.
C24_OnlyFourStatuses ==
    \A b \in DOMAIN bookings :
        bookings[b].status \in {PENDING_APPROVAL, APPROVED, REJECTED, CANCELLED}

\* a booking was approved and then cancelled, and another one was rejected
C24_Witness ==
    \E b1, b2 \in DOMAIN bookings :
        /\ bookings[b1].status = CANCELLED /\ bookings[b1].approved_at # NULL
        /\ bookings[b2].status = REJECTED

-----------------------------------------------------------------------------
(* Claims on the release of a slot, requests served one at a time (SpecSlots) *)

\* the intervals asked of the availability checker after a release
ReleasedIntervals ==
    {<<HMS(9, 0, 0), HMS(10, 0, 0)>>, <<HMS(9, 0, 0), HMS(9, 30, 0)>>,
     <<HMS(9, 30, 0), HMS(10, 0, 0)>>, <<HMS(9, 30, 0), HMS(10, 30, 0)>>,
     <<HMS(8, 0, 0), HMS(9, 0, 0)>>}

\* booking b of the table bk is the only booking that reserves some part of
\* the interval i on its resource and date
OnlyBlocker(bk, b, i) ==
    /\ bk[b].status \in {PENDING_APPROVAL, APPROVED, CONFIRMED, CHECKED_IN}
    /\ i[1] < bk[b].end_time /\ i[2] > bk[b].start_time
    /\ Free(Remaining(bk, {b}), bk[b].resource_id, bk[b].booking_date, i[1], i[2])

-----------------------------------------------------------------------------
(* Claims on concurrent decisions (SpecConc) *)

\* C26: of two concurrent requests of the studio owner on the same
\* PENDING_APPROVAL booking, one approving and one rejecting, exactly one
\* succeeds and the other fails with InvalidTransition (never both answered
\* 200), and in every reachable state a REJECTED booking has null approved_at
\* and approved_by and an APPROVED booking has a null rejection_reason.
C26_OneDecisionWins ==
    /\ \A w1 \in Workers, w2 \in Workers :
          ~(/\ reqs[w1].pc = "done" /\ reqs[w1].op = "approve" /\ reqs[w1].status_code = 200
            /\ reqs[w2].pc = "done" /\ reqs[w2].op = "reject" /\ reqs[w2].status_code = 200
            /\ reqs[w1].booking_id = reqs[w2].booking_id)
    /\ \A b \in DOMAIN bookings :
          /\ bookings[b].status = REJECTED
             => bookings[b].approved_at = NULL /\ bookings[b].approved_by = NULL
          /\ bookings[b].status = APPROVED => bookings[b].rejection_reason = NULL

-----------------------------------------------------------------------------
(* Claims on the reads of bookings (SpecGet, SpecViews, SpecMine) *)

\* C27: get_booking returns the booking only when the caller is the booking's
\* customer, or has the owner role and owns the booking's studio, or has the
\* admin role; every other caller gets Forbidden and no booking, and a missing
\* booking gives NotFound; an owner of another studio and another customer
\* never receive the booking.
C27_GetBookingPermissions ==
    [][(call' # call /\ call'.fn = "get_booking")
       => LET u == call'.args[1]
              b == call'.args[2]
              r == Val(call'.result)
          IN  IF b \notin DOMAIN bookings
              THEN ErrorKind(r) = "NotFound" /\ r.booking = NULL
              ELSE IF \/ bookings[b].user_id = u
                      \/ role(u) = "owner" /\ studios[bookings[b].studio_id].owner_id = u
                      \/ role(u) = "admin"
              THEN r.status_code = 200 /\ r.booking = Some(bookings[b])
              ELSE ErrorKind(r) = "Forbidden" /\ r.booking = NULL]_vars

\* the owner o2 asked for a booking of c1 in o1's studio 1 and got Forbidden
C27_Witness ==
    /\ call.fn = "get_booking" /\ call.args[1] = "o2"
    /\ call.args[2] \in DOMAIN bookings
    /\ bookings[call.args[2]].studio_id = 1
    /\ bookings[call.args[2]].user_id = "c1"
    /\ Val(call.result).status_code = 403
    /\ Val(call.result).booking = NULL

\* C28: get_pending_bookings called by an owner returns exactly the bookings
\* whose status is PENDING_APPROVAL and whose studio the caller owns, each
\* once, oldest created first; it returns no booking of a studio of someone
\* else, and a booking that was just approved, rejected or cancelled is not in
\* the list.
C28_PendingListOfOwner ==
    [][(call' # call /\ call'.fn = "get_pending_bookings"
        /\ role(call'.args[1]) = "owner")
       => LET u == call'.args[1]
              rows == Val(call'.result).rows
          IN  /\ Val(call'.result).status_code = 200
              /\ {rows[i] : i \in DOMAIN rows}
                 = {b \in DOMAIN bookings :
                       /\ bookings[b].status = PENDING_APPROVAL
                       /\ studios[bookings[b].studio_id].owner_id = u}
              /\ \A i, j \in DOMAIN rows :
                    i < j => /\ rows[i] # rows[j]
                             /\ bookings[rows[i]].created_at <= bookings[rows[j]].created_at
              /\ (last.op \in {"approve", "reject", "cancel"} /\ last.status_code = 200)
                 => \A i \in DOMAIN rows : rows[i] # last.booking_id]_vars

\* o1 approved booking 1 of studio 1 and then read the list, which holds the
\* other pending booking of the studio only
C28_Witness ==
    /\ call.fn = "get_pending_bookings" /\ call.args = <<"o1">>
    /\ last.op = "approve" /\ last.status_code = 200 /\ last.booking_id = 1
    /\ bookings[1].status = APPROVED
    /\ Val(call.result).rows = <<2>>

\* C29: get_my_bookings called by a customer returns exactly the bookings
\* whose customer is the caller, of every status and of no other customer,
\* sorted by booking date, the newest booking date first.
C29_MyBookingsByBookingDate ==
    [][(call' # call /\ call'.fn = "get_my_bookings"
        /\ role(call'.args[1]) = "customer")
       => LET u == call'.args[1]
              rows == Val(call'.result).rows
          IN  /\ Val(call'.result).status_code = 200
              /\ {rows[i] : i \in DOMAIN rows}
                 = {b \in DOMAIN bookings : bookings[b].user_id = u}
              /\ \A i, j \in DOMAIN rows :
                    i < j => /\ rows[i] # rows[j]
                             /\ bookings[rows[i]].booking_date
                                >= bookings[rows[j]].booking_date]_vars

-----------------------------------------------------------------------------
(* Claims on the excluded booking (SpecExclude) *)

\* C30: check_time_slot_available called with exclude_booking_id = b returns
\* the answer it returns, with no exclusion, on the table without booking b:
\* booking b never causes a conflict and every other booking with an active
\* status that overlaps the interval still does.
C30_ExcludeIsRemoval ==
    (/\ call.fn = "check_time_slot_available"
     /\ call.result # NULL
     /\ call.args[5] # NULL)
    => LET without == Remaining(bookings, {Val(call.args[5])})
       IN  /\ Val(call.result)
              = check_time_slot_available(without, call.args[1], call.args[2],
                                          call.args[3], call.args[4], NULL)
           /\ Val(call.result)
              = Free(without, call.args[1], call.args[2], call.args[3], call.args[4])

\* the excluded booking is the only active booking that overlaps the interval
\* of the call, and the call answered available
C30_Witness ==
    /\ call.fn = "check_time_slot_available" /\ call.result = Some(TRUE)
    /\ call.args[5] # NULL
    /\ Val(call.args[5]) \in DOMAIN bookings
    /\ OnlyBlocker(bookings, Val(call.args[5]), <<call.args[3], call.args[4]>>)
    /\ bookings[Val(call.args[5])].resource_id = call.args[1]
    /\ bookings[Val(call.args[5])].booking_date = call.args[2]

-----------------------------------------------------------------------------
(* Claims on the frame of the operations (SpecFrame) *)

\* the columns a transition may assign: the status and the metadata of the
\* approval, the rejection and the cancellation
TransitionColumns ==
    {"status", "approved_at", "approved_by", "rejection_reason", "cancelled_at",
     "cancel_reason", "refund_percentage", "refund_amount"}

\* C31: each successful approve, reject or cancel modifies the targeted
\* booking only, and on it only the status and the metadata of the transition
\* (customer, resource, studio, date, start_time, end_time, duration_minutes,
\* total_amount and currency stay as they are); every failed operation and
\* every read (the slot list, the list of my bookings, the list of pending
\* bookings, get_booking) leaves the whole table of bookings unchanged.
C31_FrameOfOperations ==
    [][/\ (last'.op \in {"approve", "reject", "cancel"} /\ bookings' # bookings)
          => /\ last'.status_code = 200
             /\ DOMAIN bookings' = DOMAIN bookings
             /\ \A b \in DOMAIN bookings :
                   /\ b # last'.booking_id => bookings'[b] = bookings[b]
                   /\ \A f \in DOMAIN bookings[b] :
                         f \notin TransitionColumns => bookings'[b][f] = bookings[b][f]
       /\ (last' # last /\ last'.status_code \notin {200, 201}) => bookings' = bookings
       /\ (last'.op = "create" /\ bookings' # bookings)
          => /\ last'.status_code = 201
             /\ \A b \in DOMAIN bookings : b \in DOMAIN bookings' /\ bookings'[b] = bookings[b]
       /\ (call'.fn # call.fn \/ call' # call) => bookings' = bookings /\ last' = last]_vars

\* booking 1 was approved and then cancelled while booking 2 is pending, and
\* the list of pending bookings was read after the cancellation
C31_Witness ==
    /\ last.op = "cancel" /\ last.status_code = 200 /\ last.booking_id = 1
    /\ Val(last.before).status = APPROVED
    /\ bookings[1].status = CANCELLED
    /\ bookings[1].total_amount = Val(last.before).total_amount
    /\ 2 \in DOMAIN bookings /\ bookings[2].status = PENDING_APPROVAL
    /\ call.fn = "get_pending_bookings" /\ Val(call.result).rows = <<>>

-----------------------------------------------------------------------------
(* Claims on the slot generator (SpecGenerate) *)

\* the slots list the whole windows of interval_minutes from start_time on
\* that end by end_time
WholeWindows(slots, start_time, end_time, interval_minutes) ==
    /\ Len(slots) = (IF end_time > start_time
                     THEN (end_time - start_time) \div (interval_minutes * 60)
                     ELSE 0)
    /\ \A i \in 1..Len(slots) :
          /\ slots[i][1] = start_time + (i - 1) * interval_minutes * 60
          /\ slots[i][2] = slots[i][1] + interval_minutes * 60
          /\ slots[i][2] <= end_time

-----------------------------------------------------------------------------
(* Claims on the intervals of the persisted bookings (SpecGrid) *)

\* C33: for every persisted booking, with times of day at one-second
\* resolution, the stored duration_minutes is exact: end_time - start_time
\* is duration_minutes * 60 seconds, so the reserved interval is a whole
\* multiple of 30 minutes long.
C33_DurationIsExact ==
    \A b \in DOMAIN bookings :
        /\ bookings[b].end_time - bookings[b].start_time = bookings[b].duration_minutes * 60
        /\ (bookings[b].end_time - bookings[b].start_time) % (30 * 60) = 0

\* C35: every persisted booking occupies a union of consecutive slots of the
\* slot list: start_time and end_time lie on the 30-minute grid that starts at
\* 09:00 and the interval lies within 09:00-22:00, so every active booking
\* makes exactly the slots it covers, duration_minutes / 30 of them,
\* unavailable in the slot list of its resource and date.
C35_BookingsOnTheSlotGrid ==
    \A b \in DOMAIN bookings :
        LET start_time == bookings[b].start_time
            end_time == bookings[b].end_time
            slots == GetAvailableSlots(bookings, resources, bookings[b].resource_id,
                                       bookings[b].booking_date).slots
            covered == {i \in DOMAIN slots :
                           slots[i].start_time < end_time /\ slots[i].end_time > start_time}
        IN  /\ HMS(9, 0, 0) <= start_time /\ end_time <= HMS(22, 0, 0)
            /\ (start_time - HMS(9, 0, 0)) % (30 * 60) = 0
            /\ (end_time - HMS(9, 0, 0)) % (30 * 60) = 0
            /\ bookings[b].status \in {PENDING_APPROVAL, APPROVED, CONFIRMED, CHECKED_IN}
               => /\ Cardinality(covered) = bookings[b].duration_minutes \div 30
                  /\ \A i \in covered : ~slots[i].is_available

-----------------------------------------------------------------------------
(* Claims on the slot list and the booking that follows it (SpecAgree) *)

\* The request that this step served was a customer's create_booking for
\* these arguments
CreateStep(args) ==
    /\ last' # last
    /\ last'.op = "create"
    /\ role(last'.caller) = "customer"
    /\ last'.args = args

\* call holds the slot list of its resource and date as get_available_slots
\* computes it in the current state
FreshSlots ==
    /\ call.fn = "get_available_slots"
    /\ call.result = Some(GetAvailableSlots(bookings, resources, call.args[1], call.args[2]))

\* C34: if the slot list of a resource and date reports a slot available,
\* then a customer's create_booking for exactly that resource, date,
\* start_time and end_time, evaluated in the same state, succeeds.
C34_AvailableSlotCanBeBooked ==
    [][FreshSlots =>
          \A i \in DOMAIN Val(call.result).slots :
              LET slot == Val(call.result).slots[i]
              IN  slot.is_available
                  /\ CreateStep(<<call.args[1], call.args[2], slot.start_time, slot.end_time>>)
                  => last'.status_code = 201]_vars

\* C36: the total_amount of a booking of k * 30 minutes is k times the price
\* that the slot list shows for one 30-minute slot of the resource in the
\* state in which the booking is created.
C36_TotalIsSlotsTimesSlotPrice ==
    [][\A a \in AgreeCreateArgs :
          CreateStep(<<a[2], a[3], a[4], a[5]>>) /\ last'.status_code = 201
          => LET slots == GetAvailableSlots(bookings, resources, a[2], a[3]).slots
                 booking == bookings'[last'.booking_id]
             IN  booking.total_amount = (booking.duration_minutes \div 30) * slots[1].price]_vars

-----------------------------------------------------------------------------
(* Claims on the transition metadata, requests served one at a time (SpecSlots) *)

\* The metadata of one row agrees with its status
MetadataOfStatus(row) ==
    /\ \A f \in {"cancelled_at", "cancel_reason", "refund_percentage", "refund_amount"} :
          row[f] # NULL <=> row.status = CANCELLED
    /\ row.approved_at = NULL <=> row.approved_by = NULL
    /\ row.approved_at # NULL => row.status \in {APPROVED, CANCELLED}
    /\ row.rejection_reason # NULL => row.status \in {REJECTED, CANCELLED}

\* C37: with every operation atomic, for every persisted booking cancelled_at,
\* cancel_reason, refund_percentage and refund_amount are all non-null exactly
\* when the status is CANCELLED; approved_at and approved_by are both null or
\* both non-null, and non-null only for a booking that is APPROVED or was
\* APPROVED when it was cancelled; rejection_reason is non-null only for a
\* booking that is REJECTED or was REJECTED when it was cancelled.
C37_MetadataMatchesStatus ==
    [][\A b \in DOMAIN bookings' :
          /\ MetadataOfStatus(bookings'[b])
          /\ b \in DOMAIN bookings /\ bookings'[b].status = CANCELLED
                /\ bookings[b].status # CANCELLED
             => /\ bookings'[b].approved_at # NULL => bookings[b].status = APPROVED
                /\ bookings'[b].rejection_reason # NULL => bookings[b].status = REJECTED]_vars

\* An approved booking and a rejected booking have both been cancelled
C37_Witness ==
    \E b, c \in DOMAIN bookings :
        /\ bookings[b].status = CANCELLED /\ bookings[c].status = CANCELLED
        /\ bookings[b].approved_at # NULL /\ bookings[b].approved_by # NULL
        /\ bookings[c].rejection_reason # NULL /\ bookings[c].approved_at = NULL
        /\ bookings[b].refund_amount # NULL /\ bookings[c].refund_amount # NULL

-----------------------------------------------------------------------------
(* Claims on the refund of the cancelled bookings (SpecCancel) *)

\* C38: for every CANCELLED booking refund_percentage is 0 or 80,
\* 0 <= refund_amount <= total_amount, and refund_amount is 0 when
\* refund_percentage is 0; a cancellation after the booking's start instant
\* records refund_percentage 0.
C38_RefundOfCancelled ==
    \A b \in DOMAIN bookings :
        bookings[b].status = CANCELLED
        => LET refund_percentage == Val(bookings[b].refund_percentage)
               refund_amount == Val(bookings[b].refund_amount)
           IN  /\ refund_percentage \in {0, 80}
               /\ 0 <= refund_amount /\ refund_amount <= bookings[b].total_amount
               /\ refund_percentage = 0 => refund_amount = 0
               /\ Val(bookings[b].cancelled_at)
                     > DateTime(bookings[b].booking_date, bookings[b].start_time)
                  => refund_percentage = 0

\* One booking was cancelled after it had begun, another a day ahead with a
\* refund of 80% of 1000.01
C38_Witness ==
    \E b, c \in DOMAIN bookings :
        /\ bookings[b].status = CANCELLED /\ bookings[c].status = CANCELLED
        /\ Val(bookings[b].cancelled_at)
              > DateTime(bookings[b].booking_date, bookings[b].start_time)
        /\ bookings[b].refund_percentage = Some(0) /\ bookings[b].refund_amount = Some(0)
        /\ bookings[c].refund_percentage = Some(80)
        /\ bookings[c].total_amount = 100001 /\ bookings[c].refund_amount = Some(80001)

====
